---- MODULE Spec2Model ----
(***************************************************************************)
(* A model of the 5G network security simulator (FiveGNetworkSimulator in  *)
(* src/5g_network_simulator.py), of the detectors of AttackDetector        *)
(* (src/attack_detector.py) and of run_simulation                          *)
(* (simulation/run_simulation.py).                                         *)
(*                                                                         *)
(* Units.  Floating point quantities are held as scaled integers:          *)
(*   signal_strength, anomaly_score                        : hundredths    *)
(*   confidence of a flood finding                         : thousandths   *)
(*   confidence of an interception finding                 : hundredths    *)
(*   coordinates and radius                                : halves        *)
(*   timestamps                                            : whole seconds *)
(* Means, variances, rates and the other confidences are exact fractions   *)
(* [num, den] or [sum, n] of integers.  The isolation forest is a library: *)
(* its labels and scores are inputs.                                       *)
(* The clock is an input as well: two reads made in quick succession       *)
(* return the same instant, or the later one returns a later instant.      *)
(* random.randint / random.uniform / random.choice are inputs; every draw  *)
(* is taken from a small sample of the range the code draws from, the      *)
(* sample holding both ends of the range.                                  *)
(***************************************************************************)
EXTENDS Integers, Sequences, FiniteSets, TLC

VARIABLES
    nodes,            \* self.nodes: node_id -> NetworkNode
    traffic_data,     \* self.traffic_data: list of traffic dicts
    security_events,  \* self.security_events: list of SecurityEvent
    now,              \* the wall clock (datetime.now(), time.time()), seconds
    clock_step,       \* what the clock gains from one read to the next
    ret,              \* the value returned by the last call
    producer,         \* history: producer[i] is the method that appended traffic_data[i]
    hist,             \* history: the last call, its arguments, the calls made so far,
                      \* and how many calls and traffic records the behaviour may have
    det_input,        \* the list handed to the AttackDetector
    run               \* run_simulation: where it stands, its arguments, the calls it made

vars == <<nodes, traffic_data, security_events, now, clock_step, ret, producer, hist,
          det_input, run>>

-----------------------------------------------------------------------------
(* Bounds of the model *)

MaxCalls == 3        \* simulator calls in one behaviour
MaxTraffic == 5      \* records in traffic_data
MaxInput == 3        \* records in a list handed to a detector
MaxEvents == 11      \* security events of a long behaviour
MaxRunCalls == 6     \* simulator and detector calls of one run_simulation
MaxRunTraffic == 35  \* records in traffic_data in one run_simulation
MaxTwinCalls == 4    \* calls made on each of two simulators run side by side
MaxQuietCalls == 2   \* calls on a simulator no attack is injected into
MaxQuietTraffic == 104  \* records in its traffic_data: 26 seconds of 4 endpoints

-----------------------------------------------------------------------------
(* Small helpers *)

Range(s) == {s[i] : i \in 1..Len(s)}

\* The sum of the elements; the sequence is halved, which keeps the evaluation
\* of the sum of a long list shallow.
RECURSIVE SumSeq(_)
SumSeq(s) ==
    IF s = <<>> THEN 0
    ELSE IF Len(s) = 1 THEN s[1]
    ELSE LET half == Len(s) \div 2
         IN  SumSeq(SubSeq(s, 1, half)) + SumSeq(SubSeq(s, half + 1, Len(s)))

Min(a, b) == IF a <= b THEN a ELSE b

IsPrefix(s, t) == Len(s) <= Len(t) /\ SubSeq(t, 1, Len(s)) = s

\* The k-th read (k = 0, 1, ...) of the clock made by one call.
ClockRead(k) == now + k * clock_step

\* The sequences of n draws of which the first k are lo and the others hi.
DrawSeqs(n, lo, hi) == { [j \in 1..n |-> IF j <= k THEN lo ELSE hi] : k \in 0..n }

-----------------------------------------------------------------------------
(* Enumerations *)

ThreatType == [DDOS |-> "DDoS Attack", MITM |-> "Man-in-the-Middle",
               SPOOFING |-> "Spoofing Attack", JAMMING |-> "Jamming Attack",
               DATA_BREACH |-> "Data Privacy Breach", IMSI_CATCHING |-> "IMSI Catching",
               ROGUE_BASE_STATION |-> "Rogue Base Station"]

Severity == [LOW |-> 1, MEDIUM |-> 2, HIGH |-> 3, CRITICAL |-> 4]

\* NetworkNode(...): status and security_level take their defaults.
NetworkNode(id, type, ip, x, y) ==
    [node_id |-> id, node_type |-> type, ip_address |-> ip,
     location |-> <<2 * x, 2 * y>>, status |-> "active", security_level |-> 5]

\* SecurityEvent(...): mitigation_status takes its default.
SecurityEvent(id, ts, threat, sev, src, tgt, descr) ==
    [event_id |-> id, timestamp |-> ts, threat_type |-> threat, severity |-> sev,
     source_node |-> src, target_node |-> tgt, description |-> descr,
     mitigation_status |-> "pending"]

-----------------------------------------------------------------------------
(* initialize_network *)

core_nodes == << NetworkNode("AMF-001", "AMF", "10.0.1.1", 0, 0),
                 NetworkNode("SMF-001", "SMF", "10.0.1.2", 0, 1),
                 NetworkNode("UPF-001", "UPF", "10.0.1.3", 0, 2),
                 NetworkNode("AUSF-001", "AUSF", "10.0.1.4", 0, 3),
                 NetworkNode("UDM-001", "UDM", "10.0.1.5", 0, 4) >>

ran_nodes == << NetworkNode("gNB-001", "gNodeB", "10.0.2.1", 1, 0),
                NetworkNode("gNB-002", "gNodeB", "10.0.2.2", 1, 1),
                NetworkNode("gNB-003", "gNodeB", "10.0.2.3", 1, 2),
                NetworkNode("gNB-004", "gNodeB", "10.0.2.4", 1, 3) >>

ue_nodes == << NetworkNode("UE-001", "User Equipment", "192.168.1.1", 2, 0),
               NetworkNode("UE-002", "User Equipment", "192.168.1.2", 2, 1),
               NetworkNode("UE-003", "User Equipment", "192.168.1.3", 2, 2),
               NetworkNode("UE-004", "User Equipment", "192.168.1.4", 2, 3) >>

all_nodes == core_nodes \o ran_nodes \o ue_nodes

\* list(self.nodes.keys()): the identifiers in insertion order.
NodeKeys == [i \in 1..Len(all_nodes) |-> all_nodes[i].node_id]

NodeIds == Range(NodeKeys)

initialize_network ==
    [id \in NodeIds |-> CHOOSE n \in Range(all_nodes) : n.node_id = id]

-----------------------------------------------------------------------------
(* The values the random draws are taken from *)

\* One draw of generate_normal_traffic: pick indexes list(self.nodes.keys())
\* (random.choice), the other fields are the ends of the code's ranges.
GenDraws ==
    << [pick |-> 10, packet_count |-> 10, data_volume |-> 100, latency |-> 1,
        signal_strength |-> 70],
       [pick |-> 1, packet_count |-> 100, data_volume |-> 1000, latency |-> 50,
        signal_strength |-> 100] >>

\* One draw of simulate_ddos_attack: attacker is randint(1000, 9999),
\* bytes_per_packet is randint(50, 200).
DDoSDraws ==
    << [packet_count |-> 1000, attacker |-> 1000, bytes_per_packet |-> 50,
        latency |-> 100, signal_strength |-> 30],
       [packet_count |-> 5000, attacker |-> 9999, bytes_per_packet |-> 200,
        latency |-> 500, signal_strength |-> 60] >>

\* One draw of simulate_mitm_attack.
MitmDraws ==
    { [packet_count |-> 50, data_volume |-> 500, latency |-> 20,
       signal_strength |-> 40, anomaly_score |-> 70],
      [packet_count |-> 200, data_volume |-> 2000, latency |-> 100,
       signal_strength |-> 80, anomaly_score |-> 90] }

\* The arguments the callers pass.
Durations == 0..2
DDoSCalls == {<<"gNB-001", 0>>, <<"gNB-001", 2>>, <<"gNB-999", 1>>}
\* ((1, 1), 0.5), ((1, 1), 1.0) and ((1.5, 1), 0.5)
JamCalls == {<<<<2, 2>>, 1>>, <<<<2, 2>>, 2>>, <<<<3, 2>>, 1>>}
MitmConnections == {<<"UE-001", "gNB-001">>, <<"UE-777", "UE-777">>}

\* f"ATTACKER-{k}"
AttackerId(k) == IF k = 1000 THEN "ATTACKER-1000" ELSE "ATTACKER-9999"

-----------------------------------------------------------------------------
(* The traffic dicts *)

NormalTraffic_flagged(ts, node_id, draw) ==
    [timestamp |-> ts, source |-> node_id, destination |-> NodeKeys[draw.pick],
     packet_count |-> draw.packet_count, data_volume |-> draw.data_volume,
     latency |-> draw.latency, signal_strength |-> draw.signal_strength,
     is_attack |-> TRUE]

\* generate_normal_traffic: the dict of one endpoint for one second.
NormalTraffic(ts, node_id, draw) ==
    [timestamp |-> ts, source |-> node_id, destination |-> NodeKeys[draw.pick],
     packet_count |-> draw.packet_count, data_volume |-> draw.data_volume,
     latency |-> draw.latency, signal_strength |-> draw.signal_strength,
     is_attack |-> FALSE]

DDoSTraffic_swapped(ts, target_node, draw) ==
    [timestamp |-> ts, source |-> target_node, destination |-> AttackerId(draw.attacker),
     packet_count |-> draw.packet_count,
     data_volume |-> draw.packet_count * draw.bytes_per_packet,
     latency |-> draw.latency, signal_strength |-> draw.signal_strength,
     is_attack |-> TRUE, attack_type |-> "DDoS"]

\* simulate_ddos_attack: the dict of one second of the attack.
DDoSTraffic(ts, target_node, draw) ==
    [timestamp |-> ts, source |-> AttackerId(draw.attacker), destination |-> target_node,
     packet_count |-> draw.packet_count,
     data_volume |-> draw.packet_count * draw.bytes_per_packet,
     latency |-> draw.latency, signal_strength |-> draw.signal_strength,
     is_attack |-> TRUE, attack_type |-> "DDoS"]

MaliciousTraffic_swapped(ts, source, destination, draw) ==
    [timestamp |-> ts, source |-> destination, destination |-> source,
     packet_count |-> draw.packet_count, data_volume |-> draw.data_volume,
     latency |-> draw.latency, signal_strength |-> draw.signal_strength,
     is_attack |-> TRUE, attack_type |-> "MITM", anomaly_score |-> draw.anomaly_score]

\* simulate_mitm_attack: the one malicious dict.
MaliciousTraffic(ts, source, destination, draw) ==
    [timestamp |-> ts, source |-> source, destination |-> destination,
     packet_count |-> draw.packet_count, data_volume |-> draw.data_volume,
     latency |-> draw.latency, signal_strength |-> draw.signal_strength,
     is_attack |-> TRUE, attack_type |-> "MITM", anomaly_score |-> draw.anomaly_score]

-----------------------------------------------------------------------------
(* State after construction and initialize_network *)

None == [kind |-> "None"]

\* No run of run_simulation is under way: the simulator is called directly.
NoRun == [pc |-> "none"]

Init ==
    /\ nodes = initialize_network
    /\ traffic_data = <<>>
    /\ security_events = <<>>
    /\ now = 0
    /\ clock_step \in {0, 20}
    /\ ret = None
    /\ producer = <<>>
    /\ hist = [op |-> "init", arg |-> [none |-> TRUE], n |-> 0, inj |-> 0,
               budget |-> MaxCalls, room |-> MaxTraffic]
    /\ det_input = <<>>
    /\ run = NoRun

\* One more call may be made.
CanCall == hist.n < hist.budget

\* The bookkeeping of one simulator call that made `reads` reads of the clock.
Called(op, arg, injector, reads) ==
    /\ now' = (IF reads = 0 THEN now ELSE ClockRead(reads - 1))
    /\ hist' = [hist EXCEPT !.op = op, !.arg = arg, !.n = hist.n + 1,
                             !.inj = hist.inj + (IF injector THEN 1 ELSE 0)]
    /\ UNCHANGED <<clock_step, det_input>>

-----------------------------------------------------------------------------
(* generate_normal_traffic *)

Endpoints_radio == SelectSeq(NodeKeys, LAMBDA id : nodes[id].node_type = "gNodeB")

Endpoints_active ==
    SelectSeq(NodeKeys, LAMBDA id : /\ nodes[id].node_type = "User Equipment"
                                    /\ nodes[id].status = "active")

\* The endpoints, in the order self.nodes.items() yields them.
Endpoints == SelectSeq(NodeKeys, LAMBDA id : nodes[id].node_type = "User Equipment")

generate_normal_traffic(duration) ==
    LET ne == Len(Endpoints)
        n == duration * ne
    IN  /\ CanCall
        /\ Len(traffic_data) + n <= hist.room
        /\ \E draws \in DrawSeqs(n, GenDraws[1], GenDraws[2]) :
              traffic_data' = traffic_data \o
                  [j \in 1..n |->
                      NormalTraffic(ClockRead(j - 1), Endpoints[((j - 1) % ne) + 1], draws[j])]
        /\ producer' = producer \o [j \in 1..n |-> "generate_normal_traffic"]
        /\ ret' = None
        /\ Called("generate_normal_traffic", [duration |-> duration], FALSE, n)
        /\ UNCHANGED <<nodes, security_events>>

-----------------------------------------------------------------------------
(* simulate_ddos_attack *)

AttackPackets_last(packet_counts) ==
    IF packet_counts = <<>> THEN 0 ELSE packet_counts[Len(packet_counts)]

\* attack_packets, 0 at first and += packet_count in every second.
AttackPackets(packet_counts) == SumSeq(packet_counts)

simulate_ddos_attack(target_node, duration) ==
    /\ CanCall
    /\ Len(traffic_data) + duration <= hist.room
    /\ \E draws \in DrawSeqs(duration, DDoSDraws[1], DDoSDraws[2]) :
          LET attack_start == ClockRead(0)
              new == [j \in 1..duration |-> DDoSTraffic(ClockRead(j), target_node, draws[j])]
              attack_packets == AttackPackets([j \in 1..duration |-> draws[j].packet_count])
              event == SecurityEvent(
                  [prefix |-> "DDOS", time |-> ClockRead(duration + 1)],
                  attack_start, ThreatType.DDOS, Severity.HIGH,
                  "Multiple Attackers", [node |-> target_node],
                  [text |-> "DDoS attack with packets over seconds",
                   packets |-> attack_packets, seconds |-> duration])
          IN  /\ traffic_data' = traffic_data \o new
              /\ security_events' = Append(security_events, event)
    /\ producer' = producer \o [j \in 1..duration |-> "simulate_ddos_attack"]
    /\ ret' = None
    /\ Called("simulate_ddos_attack", [target_node |-> target_node, duration |-> duration],
              TRUE, duration + 2)
    /\ UNCHANGED nodes

-----------------------------------------------------------------------------
(* simulate_jamming_attack *)

Distance2_x(location, target_area) ==
    (location[1] - target_area[1]) * (location[1] - target_area[1])

\* The square of the distance np.sqrt(dx**2 + dy**2) is taken of.
Distance2(location, target_area) ==
    (location[1] - target_area[1]) * (location[1] - target_area[1])
  + (location[2] - target_area[2]) * (location[2] - target_area[2])

WithinRadius_strict(location, target_area, radius) ==
    radius >= 0 /\ Distance2(location, target_area) < radius * radius

\* distance <= radius.  The square root of a sum of two squares is >= 0, and on
\* the non-negative numbers sqrt(a) <= r is a <= r * r.
WithinRadius(location, target_area, radius) ==
    radius >= 0 /\ Distance2(location, target_area) <= radius * radius

Degraded_toggled(node) ==
    [node EXCEPT !.status = IF node.status = "active" THEN "degraded" ELSE "active"]

\* node.status = "degraded"
Degraded(node) == [node EXCEPT !.status = "degraded"]

simulate_jamming_attack_restoring(target_area, radius) ==
    LET affected_nodes ==
            SelectSeq(NodeKeys,
                      LAMBDA id : WithinRadius(nodes[id].location, target_area, radius))
        event == SecurityEvent(
            [prefix |-> "JAM", time |-> ClockRead(0)],
            ClockRead(1), ThreatType.JAMMING, Severity.MEDIUM,
            "Unknown Jammer", [area |-> target_area],
            [text |-> "Jamming attack affecting nodes", affected |-> Len(affected_nodes)])
    IN  /\ CanCall
        /\ nodes' = [id \in DOMAIN nodes |->
                        IF id \in Range(affected_nodes)
                        THEN Degraded(nodes[id])
                        ELSE [nodes[id] EXCEPT !.status = "active"]]
        /\ security_events' = Append(security_events, event)
        /\ ret' = None
        /\ Called("simulate_jamming_attack", [target_area |-> target_area, radius |-> radius],
                  TRUE, 2)
        /\ UNCHANGED <<traffic_data, producer>>

simulate_jamming_attack(target_area, radius) ==
    LET affected_nodes ==
            SelectSeq(NodeKeys,
                      LAMBDA id : WithinRadius(nodes[id].location, target_area, radius))
        event == SecurityEvent(
            [prefix |-> "JAM", time |-> ClockRead(0)],
            ClockRead(1), ThreatType.JAMMING, Severity.MEDIUM,
            "Unknown Jammer", [area |-> target_area],
            [text |-> "Jamming attack affecting nodes", affected |-> Len(affected_nodes)])
    IN  /\ CanCall
        /\ nodes' = [id \in DOMAIN nodes |->
                        IF id \in Range(affected_nodes)
                        THEN Degraded(nodes[id])
                        ELSE nodes[id]]
        /\ security_events' = Append(security_events, event)
        /\ ret' = None
        /\ Called("simulate_jamming_attack", [target_area |-> target_area, radius |-> radius],
                  TRUE, 2)
        /\ UNCHANGED <<traffic_data, producer>>

-----------------------------------------------------------------------------
(* simulate_mitm_attack *)

simulate_mitm_attack(target_connection) ==
    LET source == target_connection[1]
        destination == target_connection[2]
        event == SecurityEvent(
            [prefix |-> "MITM", time |-> ClockRead(1)],
            ClockRead(2), ThreatType.MITM, Severity.CRITICAL,
            "Attacker", [source |-> source, destination |-> destination],
            [text |-> "Man-in-the-middle attack detected"])
    IN  /\ CanCall
        /\ Len(traffic_data) + 1 <= hist.room
        /\ \E draw \in MitmDraws :
              traffic_data' =
                  Append(traffic_data, MaliciousTraffic(ClockRead(0), source, destination, draw))
        /\ security_events' = Append(security_events, event)
        /\ producer' = Append(producer, "simulate_mitm_attack")
        /\ ret' = None
        /\ Called("simulate_mitm_attack", [target_connection |-> target_connection], TRUE, 3)
        /\ UNCHANGED nodes

-----------------------------------------------------------------------------
(* detect_anomalies *)

\* self.detection_thresholds
DDOS_THRESHOLD == 1000
JAMMING_THRESHOLD == 80
MITM_THRESHOLD == 70

\* datetime.minute: the minute of the hour.
MinuteOfHour(ts) == (ts \div 60) % 60

\* The distinct values of the sequence ks, in the order of their first
\* appearance: the keys of a dict filled in one pass, ks[i] the key of item i.
\* acc holds the keys the dict had before the pass.
KeysInOrder(ks, acc) ==
    LET first == SelectSeq([i \in 1..Len(ks) |-> i],
                           LAMBDA i : /\ ks[i] \notin Range(acc)
                                      /\ \A j \in 1..(i - 1) : ks[j] # ks[i])
    IN  acc \o [k \in 1..Len(first) |-> ks[first[k]]]

RECURSIVE MaxSeq(_)
MaxSeq(s) == IF Len(s) = 1 THEN s[1]
             ELSE LET m == MaxSeq(Tail(s)) IN IF Head(s) >= m THEN Head(s) ELSE m

\* The anomalies of one window; `reads` reads of the clock were made before it.
WindowAnomalies(traffic_list, reads) ==
    LET packet_counts == [i \in 1..Len(traffic_list) |-> traffic_list[i].packet_count]
        max_packets == MaxSeq(packet_counts)
        ddos == IF max_packets > DDOS_THRESHOLD
                THEN << [type |-> "DDoS", timestamp |-> ClockRead(reads), severity |-> "HIGH",
                         description |-> [max_packets |-> max_packets],
                         affected_nodes |->
                             Cardinality({traffic_list[i].destination :
                                             i \in 1..Len(traffic_list)})] >>
                ELSE <<>>
        signal_sum == SumSeq([i \in 1..Len(traffic_list) |-> traffic_list[i].signal_strength])
        \* avg_signal < threshold, the mean being signal_sum / len
        jam == IF signal_sum < JAMMING_THRESHOLD * Len(traffic_list)
               THEN << [type |-> "Jamming", timestamp |-> ClockRead(reads + Len(ddos)),
                        severity |-> "MEDIUM",
                        description |-> [signal_sum |-> signal_sum, of |-> Len(traffic_list)],
                        affected_nodes |-> Len(traffic_list)] >>
               ELSE <<>>
        scored == SelectSeq(traffic_list,
                            LAMBDA t : "anomaly_score" \in DOMAIN t
                                       /\ t.anomaly_score > MITM_THRESHOLD)
        mitm == [i \in 1..Len(scored) |->
                    [type |-> "MITM", timestamp |-> scored[i].timestamp,
                     severity |-> "CRITICAL",
                     description |-> [anomaly_score |-> scored[i].anomaly_score],
                     source |-> scored[i].source, destination |-> scored[i].destination]]
    IN  [anomalies |-> ddos \o jam \o mitm, reads |-> Len(ddos) + Len(jam)]

RECURSIVE AnalyzeWindows(_, _, _)
AnalyzeWindows(minutes, anomalies, reads) ==
    IF minutes = <<>> THEN [anomalies |-> anomalies, reads |-> reads]
    ELSE LET traffic_list ==
                 SelectSeq(traffic_data, LAMBDA t : MinuteOfHour(t.timestamp) = Head(minutes))
             w == WindowAnomalies(traffic_list, reads)
         IN  AnalyzeWindows(Tail(minutes), anomalies \o w.anomalies, reads + w.reads)

detect_anomalies ==
    LET minutes == KeysInOrder([i \in 1..Len(traffic_data) |->
                                   MinuteOfHour(traffic_data[i].timestamp)], <<>>)
        found == AnalyzeWindows(minutes, <<>>, 0)
    IN  /\ CanCall
        /\ ret' = [kind |-> "anomalies", value |-> found.anomalies]
        /\ Called("detect_anomalies", [none |-> TRUE], FALSE, found.reads)
        /\ UNCHANGED <<nodes, traffic_data, security_events, producer>>

-----------------------------------------------------------------------------
(* generate_security_report *)

\* security_events[-10:]
RECENT_EVENTS == 10

LastN_oldest(s, n) == IF Len(s) <= n THEN s ELSE SubSeq(s, 1, n)

LastN(s, n) == IF Len(s) <= n THEN s ELSE SubSeq(s, Len(s) - n + 1, Len(s))

\* A defaultdict(int) that counted every element of the sequence ks, as a dict.
Tally(ks) == [k \in Range(ks) |-> Len(SelectSeq(ks, LAMBDA x : x = k))]

AttackTrafficPercentage_unguarded(attack_traffic, total_traffic) ==
    [num |-> attack_traffic * 100, den |-> total_traffic]

\* (attack_traffic / total_traffic * 100) if total_traffic > 0 else 0, as the
\* fraction num / den.
AttackTrafficPercentage(attack_traffic, total_traffic) ==
    IF total_traffic > 0 THEN [num |-> attack_traffic * 100, den |-> total_traffic]
    ELSE [num |-> 0, den |-> 1]

SecurityReport ==
    LET total_events == Len(security_events)
        total_traffic == Len(traffic_data)
        attack_traffic ==
            Len(SelectSeq(traffic_data,
                          LAMBDA t : IF "is_attack" \in DOMAIN t THEN t.is_attack ELSE FALSE))
        recent == LastN(security_events, RECENT_EVENTS)
    IN  [summary |->
            [total_security_events |-> total_events,
             total_traffic_records |-> total_traffic,
             attack_traffic_percentage |-> AttackTrafficPercentage(attack_traffic, total_traffic),
             network_nodes |-> Cardinality(DOMAIN nodes)],
         threat_distribution |->
            Tally([i \in 1..Len(security_events) |-> security_events[i].threat_type]),
         severity_distribution |->
            Tally([i \in 1..Len(security_events) |-> security_events[i].severity]),
         recent_events |->
            [i \in 1..Len(recent) |->
                [event_id |-> recent[i].event_id,
                 timestamp |-> [isoformat |-> recent[i].timestamp],
                 threat_type |-> recent[i].threat_type,
                 severity |-> recent[i].severity,
                 description |-> recent[i].description]]]

generate_security_report_clearing ==
    /\ CanCall
    /\ ret' = [kind |-> "report", value |-> SecurityReport]
    /\ security_events' = <<>>
    /\ Called("generate_security_report", [none |-> TRUE], FALSE, 0)
    /\ UNCHANGED <<nodes, traffic_data, producer>>

generate_security_report_resetting ==
    /\ CanCall
    /\ ret' = [kind |-> "report", value |-> SecurityReport]
    /\ nodes' = initialize_network
    /\ Called("generate_security_report", [none |-> TRUE], FALSE, 0)
    /\ UNCHANGED <<traffic_data, security_events, producer>>

generate_security_report ==
    /\ CanCall
    /\ ret' = [kind |-> "report", value |-> SecurityReport]
    /\ Called("generate_security_report", [none |-> TRUE], FALSE, 0)
    /\ UNCHANGED <<nodes, traffic_data, security_events, producer>>

-----------------------------------------------------------------------------
(* The calls a behaviour is made of *)

GenerateNormalTraffic ==
    /\ \E duration \in Durations : generate_normal_traffic(duration)
    /\ UNCHANGED run

SimulateDDoSAttack ==
    /\ \E c \in DDoSCalls : simulate_ddos_attack(c[1], c[2])
    /\ UNCHANGED run

SimulateJammingAttack ==
    /\ \E c \in JamCalls : simulate_jamming_attack(c[1], c[2])
    /\ UNCHANGED run

SimulateMitmAttack ==
    /\ \E target_connection \in MitmConnections : simulate_mitm_attack(target_connection)
    /\ UNCHANGED run

DetectAnomalies == detect_anomalies /\ UNCHANGED run

GenerateSecurityReport == generate_security_report /\ UNCHANGED run

Next ==
    \/ GenerateNormalTraffic
    \/ SimulateDDoSAttack
    \/ SimulateJammingAttack
    \/ SimulateMitmAttack
    \/ DetectAnomalies
    \/ GenerateSecurityReport

Spec == Init /\ [][Next]_vars

-----------------------------------------------------------------------------
(* Long behaviours: more security events than a report lists *)

\* As Init, with room for MaxEvents injector calls and a report after them.
InitLong ==
    /\ nodes = initialize_network
    /\ traffic_data = <<>>
    /\ security_events = <<>>
    /\ now = 0
    /\ clock_step \in {0, 20}
    /\ ret = None
    /\ producer = <<>>
    /\ hist = [op |-> "init", arg |-> [none |-> TRUE], n |-> 0, inj |-> 0,
               budget |-> MaxEvents + 1, room |-> MaxTraffic]
    /\ det_input = <<>>
    /\ run = NoRun

\* The default jamming call, and a flood that lasts no time: each appends
\* one security event and no traffic.
JamDefaultArea ==
    /\ Len(security_events) < MaxEvents
    /\ simulate_jamming_attack(<<2, 2>>, 1)
    /\ UNCHANGED run

FloodNoTime ==
    /\ Len(security_events) < MaxEvents
    /\ simulate_ddos_attack("gNB-001", 0)
    /\ UNCHANGED run

\* A report, once, when the injectors have been called.
ReportEvents ==
    /\ hist.op # "generate_security_report"
    /\ generate_security_report
    /\ UNCHANGED run

NextLong == JamDefaultArea \/ FloodNoTime \/ ReportEvents

SpecLong == InitLong /\ [][NextLong]_vars

-----------------------------------------------------------------------------
(* AttackDetector._group_by_time_windows *)

\* window_start of a timestamp: replace(second=0, microsecond=0), then
\* replace(minute=(minute // (window_size // 60)) * (window_size // 60)).
WindowStart(timestamp, window_size) ==
    LET floored == timestamp - (timestamp % 60)
        minute == (floored \div 60) % 60
        per == window_size \div 60
    IN  floored - minute * 60 + ((minute \div per) * per) * 60

\* The dict window_start -> records, as the sequence of its items.
GroupByTimeWindows(traffic, window_size) ==
    LET starts == [i \in 1..Len(traffic) |-> WindowStart(traffic[i].timestamp, window_size)]
        keys == KeysInOrder(starts, <<>>)
    IN  [k \in 1..Len(keys) |->
            [window_start |-> keys[k],
             records |-> SelectSeq(traffic,
                             LAMBDA t : WindowStart(t.timestamp, window_size) = keys[k])]]

-----------------------------------------------------------------------------
(* AttackDetector.detect_ddos_attack *)

\* attack_patterns["ddos_patterns"]["high_packet_rate"]
HIGH_PACKET_RATE == 1000

ExceedsPacketRate_inclusive(total_packets) == total_packets >= HIGH_PACKET_RATE

\* total_packets > self.attack_patterns["ddos_patterns"]["high_packet_rate"]
ExceedsPacketRate(total_packets) == total_packets > HIGH_PACKET_RATE

DDoSConfidence_halved(total_packets) == Min(total_packets \div 2, 1000)

\* min(total_packets / 1000, 1.0), in thousandths.
DDoSConfidence(total_packets) == Min(total_packets, 1000)

DDoSWindowAttacks_attacks_only(window) ==
    LET traffic_window == SelectSeq(window.records, LAMBDA t : t.is_attack)
        n == Len(traffic_window)
        total_packets == SumSeq([i \in 1..n |-> traffic_window[i].packet_count])
        unique_sources == Cardinality({traffic_window[i].source : i \in 1..n})
        avg_packet_size ==
            [sum |-> SumSeq([i \in 1..n |-> traffic_window[i].data_volume]), n |-> n]
    IN  IF ExceedsPacketRate(total_packets)
        THEN << [attack_type |-> "DDoS", timestamp |-> window.window_start,
                 severity |-> "HIGH",
                 metrics |-> [total_packets |-> total_packets,
                              unique_sources |-> unique_sources,
                              avg_packet_size |-> avg_packet_size],
                 confidence |-> DDoSConfidence(total_packets)] >>
        ELSE <<>>

\* The finding of one window, if it has one.
DDoSWindowAttacks(window) ==
    LET traffic_window == window.records
        n == Len(traffic_window)
        total_packets == SumSeq([i \in 1..n |-> traffic_window[i].packet_count])
        unique_sources == Cardinality({traffic_window[i].source : i \in 1..n})
        \* np.mean of the data volumes, as the fraction sum / n
        avg_packet_size ==
            [sum |-> SumSeq([i \in 1..n |-> traffic_window[i].data_volume]), n |-> n]
    IN  IF ExceedsPacketRate(total_packets)
        THEN << [attack_type |-> "DDoS", timestamp |-> window.window_start,
                 severity |-> "HIGH",
                 metrics |-> [total_packets |-> total_packets,
                              unique_sources |-> unique_sources,
                              avg_packet_size |-> avg_packet_size],
                 confidence |-> DDoSConfidence(total_packets)] >>
        ELSE <<>>

RECURSIVE DDoSAttacks(_)
DDoSAttacks(windows) ==
    IF windows = <<>> THEN <<>>
    ELSE DDoSWindowAttacks(Head(windows)) \o DDoSAttacks(Tail(windows))

detect_ddos_attack(traffic) == DDoSAttacks(GroupByTimeWindows(traffic, 60))

-----------------------------------------------------------------------------
(* AttackDetector.detect_jamming_attack *)

\* attack_patterns["jamming_patterns"]["signal_strength_threshold"] = 0.3,
\* the 0.2 of "min_signal < 0.2", in hundredths; the 0.1 of
\* "signal_variance > 0.1", in hundredths squared.
SIGNAL_STRENGTH_THRESHOLD == 30
MIN_SIGNAL_THRESHOLD == 20
SIGNAL_VARIANCE_THRESHOLD == 1000

\* The (timestamp, signal_strength) pairs of the records that have the key.
SignalData(traffic) ==
    LET with == SelectSeq(traffic, LAMBDA t : "signal_strength" \in DOMAIN t)
    IN  [i \in 1..Len(with) |->
            [timestamp |-> with[i].timestamp, signal_strength |-> with[i].signal_strength]]

\* Series.dt.floor("1min")
FloorMinute(timestamp) == timestamp - (timestamp % 60)

\* The keys of a pandas groupby, which come in ascending order.
RECURSIVE SortedKeys(_)
SortedKeys(keys) ==
    IF keys = {} THEN <<>>
    ELSE LET least == CHOOSE k \in keys : \A other \in keys : k <= other
         IN  <<least>> \o SortedKeys(keys \ {least})

RECURSIVE MinSeq(_)
MinSeq(s) == IF Len(s) = 1 THEN s[1] ELSE Min(Head(s), MinSeq(Tail(s)))

\* Series.var(): the sample variance (ddof = 1) as a fraction of integers,
\* NaN for a group of one sample.
SignalVariance(group) ==
    LET n == Len(group)
        sum == SumSeq(group)
        squares == SumSeq([i \in 1..n |-> group[i] * group[i]])
    IN  IF n = 1 THEN [nan |-> TRUE]
        ELSE [num |-> n * squares - sum * sum, den |-> n * (n - 1)]

JammingCriteria_no_min(avg_signal, min_signal, signal_variance) ==
    \/ avg_signal.sum < SIGNAL_STRENGTH_THRESHOLD * avg_signal.n
    \/ /\ "nan" \notin DOMAIN signal_variance
       /\ signal_variance.num > SIGNAL_VARIANCE_THRESHOLD * signal_variance.den

\* avg_signal < 0.3 or min_signal < 0.2 or signal_variance > 0.1; a comparison
\* with NaN is False.
JammingCriteria(avg_signal, min_signal, signal_variance) ==
    \/ avg_signal.sum < SIGNAL_STRENGTH_THRESHOLD * avg_signal.n
    \/ min_signal < MIN_SIGNAL_THRESHOLD
    \/ /\ "nan" \notin DOMAIN signal_variance
       /\ signal_variance.num > SIGNAL_VARIANCE_THRESHOLD * signal_variance.den

\* 1.0 - avg_signal as a fraction of integers.
JammingConfidence(avg_signal) ==
    [num |-> 100 * avg_signal.n - avg_signal.sum, den |-> 100 * avg_signal.n]

\* The finding of one group of the groupby, if it has one.
JammingWindowAttacks(time_window, group) ==
    LET avg_signal == [sum |-> SumSeq(group), n |-> Len(group)]
        min_signal == MinSeq(group)
        signal_variance == SignalVariance(group)
    IN  IF JammingCriteria(avg_signal, min_signal, signal_variance)
        THEN << [attack_type |-> "Jamming", timestamp |-> time_window,
                 severity |-> "MEDIUM",
                 metrics |-> [avg_signal_strength |-> avg_signal,
                              min_signal_strength |-> min_signal,
                              signal_variance |-> signal_variance],
                 confidence |-> JammingConfidence(avg_signal)] >>
        ELSE <<>>

RECURSIVE JammingAttacks(_, _)
JammingAttacks(signal_data, time_windows) ==
    IF time_windows = <<>> THEN <<>>
    ELSE LET time_window == Head(time_windows)
             rows == SelectSeq(signal_data,
                               LAMBDA r : FloorMinute(r.timestamp) = time_window)
             group == [i \in 1..Len(rows) |-> rows[i].signal_strength]
         IN  JammingWindowAttacks(time_window, group)
                \o JammingAttacks(signal_data, Tail(time_windows))

detect_jamming_attack(traffic) ==
    LET signal_data == SignalData(traffic)
    IN  IF signal_data = <<>> THEN <<>>
        ELSE JammingAttacks(signal_data,
                 SortedKeys({FloorMinute(signal_data[i].timestamp) :
                                i \in 1..Len(signal_data)}))

-----------------------------------------------------------------------------
(* AttackDetector.detect_spoofing_attack *)

SourceAnalysis_extremes(traffic) ==
    LET sources == KeysInOrder([i \in 1..Len(traffic) |-> traffic[i].source], <<>>)
    IN  [k \in 1..Len(sources) |->
            LET records == SelectSeq(traffic, LAMBDA t : t.source = sources[k])
                n == Len(records)
                timestamps == [i \in 1..n |-> records[i].timestamp]
            IN  [source |-> sources[k],
                 packet_count |-> SumSeq([i \in 1..n |-> records[i].packet_count]),
                 data_volume |-> SumSeq([i \in 1..n |-> records[i].data_volume]),
                 first_seen |-> MinSeq(timestamps),
                 last_seen |-> MaxSeq(timestamps)]]

\* The dict source_analysis, as the sequence of its items: one entry per
\* source in the order of first appearance; first_seen is the timestamp of the
\* source's first record of the list and last_seen, overwritten by every
\* record, that of its last record of the list.
SourceAnalysis(traffic) ==
    LET sources == KeysInOrder([i \in 1..Len(traffic) |-> traffic[i].source], <<>>)
    IN  [k \in 1..Len(sources) |->
            LET records == SelectSeq(traffic, LAMBDA t : t.source = sources[k])
                n == Len(records)
            IN  [source |-> sources[k],
                 packet_count |-> SumSeq([i \in 1..n |-> records[i].packet_count]),
                 data_volume |-> SumSeq([i \in 1..n |-> records[i].data_volume]),
                 first_seen |-> records[1].timestamp,
                 last_seen |-> records[n].timestamp]]

\* The packets-per-second threshold of "if packet_rate > 50".
SPOOFING_PACKET_RATE == 50

ExceedsSpoofingRate_inclusive(packet_count, time_span) ==
    packet_count >= SPOOFING_PACKET_RATE * time_span

\* packet_rate > 50 with packet_rate = packet_count / time_span, time_span > 0.
ExceedsSpoofingRate(packet_count, time_span) ==
    packet_count > SPOOFING_PACKET_RATE * time_span

\* min(packet_rate / 100, 1.0) as a fraction of integers, time_span > 0.
SpoofingConfidence(packet_count, time_span) ==
    IF packet_count >= 100 * time_span
    THEN [num |-> 1, den |-> 1]
    ELSE [num |-> packet_count, den |-> 100 * time_span]

\* The finding of one source, if it has one.
SourceAttacks(analysis) ==
    LET time_span == analysis.last_seen - analysis.first_seen
    IN  IF time_span > 0 /\ ExceedsSpoofingRate(analysis.packet_count, time_span)
        THEN << [attack_type |-> "Spoofing", timestamp |-> analysis.last_seen,
                 severity |-> "HIGH",
                 metrics |-> [source |-> analysis.source,
                              packet_rate |-> [num |-> analysis.packet_count,
                                               den |-> time_span],
                              total_packets |-> analysis.packet_count],
                 confidence |-> SpoofingConfidence(analysis.packet_count, time_span)] >>
        ELSE <<>>

RECURSIVE SpoofingAttacks(_)
SpoofingAttacks(analyses) ==
    IF analyses = <<>> THEN <<>>
    ELSE SourceAttacks(Head(analyses)) \o SpoofingAttacks(Tail(analyses))

detect_spoofing_attack(traffic) == SpoofingAttacks(SourceAnalysis(traffic))

-----------------------------------------------------------------------------
(* AttackDetector.detect_mitm_attack *)

\* The records that carry all of packet_count, latency and data_volume.
TrafficRecords(traffic) ==
    SelectSeq(traffic, LAMBDA t : {"packet_count", "latency", "data_volume"} \subseteq DOMAIN t)

\* The feature vector of a record; traffic.get("signal_strength", 0.5) and
\* traffic.get("anomaly_score", 0.0), in hundredths.
FeatureVector(t) ==
    << t.packet_count, t.latency, t.data_volume,
       IF "signal_strength" \in DOMAIN t THEN t.signal_strength ELSE 50,
       IF "anomaly_score" \in DOMAIN t THEN t.anomaly_score ELSE 0 >>

\* "if len(features) < 10"
MIN_FEATURES == 10

TooFewFeatures(features) == Len(features) < MIN_FEATURES

\* What sklearn's IsolationForest answers for n feature vectors: fit_predict
\* labels each vector 1 (inlier) or -1 (outlier), score_samples gives each a
\* score in [-1, 0) (hundredths here).  The forest is a library: its answer is
\* an input of the model, sampled as: no outlier, the first vector, the last
\* vector, or both, with a score of -0.5 or -1.0.
ForestOutcomes(n) ==
    IF n = 0 THEN { [labels |-> <<>>, scores |-> <<>>] }
    ELSE { [labels |-> [i \in 1..n |-> IF i \in outliers THEN -1 ELSE 1],
            scores |-> [i \in 1..n |-> score]] :
              outliers \in {{}, {1}, {n}, {1, n}}, score \in {-50, -100} }

Abs(x) == IF x < 0 THEN -x ELSE x

RECURSIVE MitmAttacks(_, _, _)
MitmAttacks(traffic_records, forest, i) ==
    IF i > Len(traffic_records) THEN <<>>
    ELSE (IF forest.labels[i] = -1
          THEN << [attack_type |-> "MITM", timestamp |-> traffic_records[i].timestamp,
                   severity |-> "CRITICAL",
                   metrics |-> [anomaly_score |-> Abs(forest.scores[i]),
                                packet_count |-> traffic_records[i].packet_count,
                                latency |-> traffic_records[i].latency],
                   confidence |-> Abs(forest.scores[i])] >>
          ELSE <<>>)
         \o MitmAttacks(traffic_records, forest, i + 1)

\* forest is the answer of the isolation forest for the feature vectors.
detect_mitm_attack(traffic, forest) ==
    LET traffic_records == TrafficRecords(traffic)
        features == [i \in 1..Len(traffic_records) |-> FeatureVector(traffic_records[i])]
    IN  IF TooFewFeatures(features) THEN <<>>
        ELSE MitmAttacks(traffic_records, forest, 1)

-----------------------------------------------------------------------------
(* AttackDetector.comprehensive_attack_detection *)

TotalAttacks_without_spoofing(results) ==
    Len(results.ddos_attacks) + Len(results.jamming_attacks) + Len(results.mitm_attacks)

\* sum(len(attacks) for attacks in results.values())
TotalAttacks(results) ==
    Len(results.ddos_attacks) + Len(results.jamming_attacks)
        + Len(results.mitm_attacks) + Len(results.spoofing_attacks)

comprehensive_attack_detection(traffic, forest, timestamp) ==
    LET results == [ddos_attacks |-> detect_ddos_attack(traffic),
                    jamming_attacks |-> detect_jamming_attack(traffic),
                    mitm_attacks |-> detect_mitm_attack(traffic, forest),
                    spoofing_attacks |-> detect_spoofing_attack(traffic)]
    IN  [ddos_attacks |-> results.ddos_attacks,
         jamming_attacks |-> results.jamming_attacks,
         mitm_attacks |-> results.mitm_attacks,
         spoofing_attacks |-> results.spoofing_attacks,
         summary |-> [total_attacks |-> TotalAttacks(results),
                      detection_timestamp |-> [isoformat |-> timestamp],
                      traffic_records_analyzed |-> Len(traffic)]]

-----------------------------------------------------------------------------
(* A call of a detection method returns, or raises *)

\* traffic["key"] raises KeyError for a record that has no such key.
KeyErrorIn(traffic, keys) ==
    \E i \in 1..Len(traffic) : ~(keys \subseteq DOMAIN traffic[i])

Raised(exception) == [kind |-> "raised", exception |-> exception]

\* detect_ddos_attack reads timestamp, packet_count, source and data_volume
\* of every record.
DDoSCall(traffic) ==
    IF KeyErrorIn(traffic, {"timestamp", "packet_count", "source", "data_volume"})
    THEN Raised("KeyError")
    ELSE [kind |-> "ddos_attacks", value |-> detect_ddos_attack(traffic)]

\* detect_jamming_attack reads the timestamp of the records that have a
\* signal_strength.
JammingCall(traffic) ==
    IF KeyErrorIn(SelectSeq(traffic, LAMBDA t : "signal_strength" \in DOMAIN t),
                  {"timestamp"})
    THEN Raised("KeyError")
    ELSE [kind |-> "jamming_attacks", value |-> detect_jamming_attack(traffic)]

\* detect_mitm_attack reads the timestamp of the records the forest labels -1.
MitmCall(traffic, forest) ==
    LET traffic_records == TrafficRecords(traffic)
    IN  IF /\ Len(traffic_records) >= MIN_FEATURES
           /\ \E i \in 1..Len(traffic_records) :
                 forest.labels[i] = -1 /\ "timestamp" \notin DOMAIN traffic_records[i]
        THEN Raised("KeyError")
        ELSE [kind |-> "mitm_attacks", value |-> detect_mitm_attack(traffic, forest)]

\* detect_spoofing_attack reads source, timestamp, packet_count and data_volume
\* of every record.
SpoofingCall(traffic) ==
    IF KeyErrorIn(traffic, {"source", "timestamp", "packet_count", "data_volume"})
    THEN Raised("KeyError")
    ELSE [kind |-> "spoofing_attacks", value |-> detect_spoofing_attack(traffic)]

\* The wrapper raises what one of the four raises.
ComprehensiveCall(traffic, forest, timestamp) ==
    IF "raised" \in {DDoSCall(traffic).kind, JammingCall(traffic).kind,
                     MitmCall(traffic, forest).kind, SpoofingCall(traffic).kind}
    THEN Raised("KeyError")
    ELSE [kind |-> "comprehensive",
          value |-> comprehensive_attack_detection(traffic, forest, timestamp)]

-----------------------------------------------------------------------------
(* The detector on the lists a caller may hand it *)

\* 00:00:00, 00:00:59 and 00:01:00 of one hour, and 01:00:00 of the next.
DetTimestamps == {0, 59, 60, 3600}
DetSources == {"UE-001", "ATTACKER-1000"}
DetPacketCounts == {1, 500, 1000}

DetRecords ==
    { [timestamp |-> ts, source |-> src, destination |-> "gNB-001", packet_count |-> pc,
       data_volume |-> 100, latency |-> 10, signal_strength |-> 50, is_attack |-> FALSE] :
         ts \in DetTimestamps, src \in DetSources, pc \in DetPacketCounts }

DetInputs == UNION {[1..n -> DetRecords] : n \in 0..MaxInput}

InitDet ==
    /\ nodes = initialize_network
    /\ traffic_data = <<>>
    /\ security_events = <<>>
    /\ now = 0
    /\ clock_step = 0
    /\ ret = None
    /\ producer = <<>>
    /\ hist = [op |-> "init", arg |-> [none |-> TRUE], n |-> 0, inj |-> 0,
               budget |-> MaxCalls, room |-> MaxTraffic]
    /\ det_input \in DetInputs
    /\ run = NoRun

\* A call of a detector: the simulator is not touched.
Detected(op) ==
    /\ hist' = [hist EXCEPT !.op = op, !.n = 1]
    /\ UNCHANGED <<nodes, traffic_data, security_events, now, clock_step, producer,
                   det_input, run>>

DetectDDoS ==
    /\ ret' = DDoSCall(det_input)
    /\ Detected("detect_ddos_attack")

NextDet == DetectDDoS

SpecDet == InitDet /\ [][NextDet]_vars

\* The state before a detector is called on one of `inputs`.
DetectorInit(inputs) ==
    /\ nodes = initialize_network
    /\ traffic_data = <<>>
    /\ security_events = <<>>
    /\ now = 0
    /\ clock_step = 0
    /\ ret = None
    /\ producer = <<>>
    /\ hist = [op |-> "init", arg |-> [none |-> TRUE], n |-> 0, inj |-> 0,
               budget |-> MaxCalls, room |-> MaxTraffic]
    /\ det_input \in inputs
    /\ run = NoRun

\* Sightings 0 s, 2 s and 4 s into a minute; 200 packets in 2 s are a rate of
\* 100, 200 in 4 s a rate of exactly 50, 201 in 4 s a rate just above 50.
SpoofTimestamps == {0, 2, 4}
SpoofPacketCounts == {100, 101}

SpoofRecords ==
    { [timestamp |-> ts, source |-> src, destination |-> "gNB-001", packet_count |-> pc,
       data_volume |-> 100, latency |-> 10, signal_strength |-> 50, is_attack |-> FALSE] :
         ts \in SpoofTimestamps, src \in DetSources, pc \in SpoofPacketCounts }

SpoofInputs == UNION {[1..n -> SpoofRecords] : n \in 0..MaxInput}

InitSpoof == DetectorInit(SpoofInputs)

DetectSpoofing ==
    /\ ret' = SpoofingCall(det_input)
    /\ Detected("detect_spoofing_attack")

NextSpoof == DetectSpoofing

SpecSpoof == InitSpoof /\ [][NextSpoof]_vars

\* Samples taken at 00:00:00, 00:00:59 and 00:01:00; a record has no
\* signal_strength, or one of 0.1, 0.2, 0.3, 0.5, 1.0 and 2.0.
JamTimestamps == {0, 59, 60}
JamSignals == {10, 20, 30, 50, 100, 200}

JamRecords ==
    { [timestamp |-> ts, source |-> "UE-001", destination |-> "gNB-001",
       packet_count |-> 10, data_volume |-> 100, latency |-> 10, is_attack |-> FALSE] :
         ts \in JamTimestamps }
    \cup
    { [timestamp |-> ts, source |-> "UE-001", destination |-> "gNB-001",
       packet_count |-> 10, data_volume |-> 100, latency |-> 10, signal_strength |-> sig,
       is_attack |-> FALSE] :
         ts \in JamTimestamps, sig \in JamSignals }

JamInputs == UNION {[1..n -> JamRecords] : n \in 0..MaxInput}

InitJam == DetectorInit(JamInputs)

DetectJamming ==
    /\ ret' = JammingCall(det_input)
    /\ Detected("detect_jamming_attack")

NextJam == DetectJamming

SpecJam == InitJam /\ [][NextJam]_vars

\* Longer lists, for the detector that wants ten records: a list is some
\* records of 00:00:00 with a weak signal, then some that have no latency, then
\* some that have no packet_count, then some of 00:00:02, all of one source.
MaxLong == 10

EarlyRecord ==
    [timestamp |-> 0, source |-> "UE-001", destination |-> "gNB-001", packet_count |-> 600,
     data_volume |-> 100, latency |-> 10, signal_strength |-> 10, is_attack |-> FALSE]

NoLatencyRecord ==
    [timestamp |-> 0, source |-> "UE-001", destination |-> "gNB-001", packet_count |-> 600,
     data_volume |-> 100, signal_strength |-> 50, is_attack |-> FALSE]

NoPacketCountRecord ==
    [timestamp |-> 0, source |-> "UE-001", destination |-> "gNB-001",
     data_volume |-> 100, latency |-> 10, signal_strength |-> 50, is_attack |-> FALSE]

LateRecord ==
    [timestamp |-> 2, source |-> "UE-001", destination |-> "gNB-001", packet_count |-> 600,
     data_volume |-> 100, latency |-> 10, signal_strength |-> 50, is_attack |-> FALSE]

Copies(n, record) == [i \in 1..n |-> record]

LongInputs ==
    { Copies(a, EarlyRecord) \o Copies(b, NoLatencyRecord)
         \o Copies(c, NoPacketCountRecord) \o Copies(d, LateRecord) :
        a \in 0..MaxLong, b \in 0..MaxLong, c \in 0..MaxLong, d \in 0..MaxLong }

InitAll == DetectorInit({input \in LongInputs : Len(input) <= MaxLong})

DetectMitm ==
    \E forest \in ForestOutcomes(Len(TrafficRecords(det_input))) :
        /\ ret' = MitmCall(det_input, forest)
        /\ Detected("detect_mitm_attack")

ComprehensiveAttackDetection ==
    \E forest \in ForestOutcomes(Len(TrafficRecords(det_input))) :
        /\ ret' = ComprehensiveCall(det_input, forest, now)
        /\ Detected("comprehensive_attack_detection")

NextAll ==
    \/ DetectDDoS
    \/ DetectJamming
    \/ DetectMitm
    \/ DetectSpoofing
    \/ ComprehensiveAttackDetection

SpecAll == InitAll /\ [][NextAll]_vars

-----------------------------------------------------------------------------
(* A simulator no attack is injected into, and the flood detector on its traffic *)

\* 25 and 26 simulated seconds: 100 and 104 records of the 4 endpoints.
QuietDurations == {25, 26}

\* The clock stands still while the traffic is generated, or gains a second
\* with every read: the records are of one minute, or of two.
InitQuiet ==
    /\ nodes = initialize_network
    /\ traffic_data = <<>>
    /\ security_events = <<>>
    /\ now = 0
    /\ clock_step \in {0, 1}
    /\ ret = None
    /\ producer = <<>>
    /\ hist = [op |-> "init", arg |-> [none |-> TRUE], n |-> 0, inj |-> 0,
               budget |-> MaxQuietCalls, room |-> MaxQuietTraffic]
    /\ det_input = <<>>
    /\ run = NoRun

QuietNormalTraffic ==
    /\ \E duration \in QuietDurations : generate_normal_traffic(duration)
    /\ UNCHANGED run

\* detector.detect_ddos_attack(simulator.traffic_data), as
\* comprehensive_attack_detection calls it on the list run_simulation hands it.
QuietDetectDDoS ==
    /\ CanCall
    /\ ret' = DDoSCall(traffic_data)
    /\ Called("detect_ddos_attack", [none |-> TRUE], FALSE, 0)
    /\ UNCHANGED <<nodes, traffic_data, security_events, producer, run>>

NextQuiet == QuietNormalTraffic \/ QuietDetectDDoS

SpecQuiet == InitQuiet /\ [][NextQuiet]_vars

-----------------------------------------------------------------------------
(* Two simulators run side by side.  Both are given the same calls of          *)
(* generate_normal_traffic, simulate_ddos_attack and simulate_mitm_attack, the  *)
(* same random draws and the same clock; they differ in the calls of           *)
(* simulate_jamming_attack.  The first is the simulator of the variables, the   *)
(* second keeps its registry, its traffic_data and the result of its detector   *)
(* in run.                                                                      *)

TwinDurations == {1}
TwinDDoSCalls == {<<"gNB-001", 1>>}
TwinMitmConnections == {<<"UE-001", "gNB-001">>}
\* ((1, 1), 1.0) and ((1.5, 1), 0.5): both reach the endpoint UE-002.
TwinJamCalls == {<<<<2, 2>>, 2>>, <<<<3, 2>>, 1>>}

\* The detector is called last, as run_simulation calls it.
TwinUndetected == hist.op # "comprehensive_attack_detection"

InitTwin ==
    /\ nodes = initialize_network
    /\ traffic_data = <<>>
    /\ security_events = <<>>
    /\ now = 0
    /\ clock_step = 20
    /\ ret = None
    /\ producer = <<>>
    /\ hist = [op |-> "init", arg |-> [none |-> TRUE], n |-> 0, inj |-> 0,
               budget |-> MaxTwinCalls, room |-> MaxTraffic]
    /\ det_input = <<>>
    /\ run = [pc |-> "twin", nodes |-> initialize_network, traffic_data |-> <<>>,
              ret |-> None]

\* The endpoints of a registry, in the order registry.items() yields them.
EndpointsOf(registry) ==
    SelectSeq(NodeKeys, LAMBDA id : registry[id].node_type = "User Equipment")

\* The registry after simulate_jamming_attack(target_area, radius).
JammedRegistry(registry, target_area, radius) ==
    [id \in DOMAIN registry |->
        IF WithinRadius(registry[id].location, target_area, radius)
        THEN Degraded(registry[id])
        ELSE registry[id]]

\* The second simulator is given the draws of the first: draws[j] is the draw
\* the first made for the j-th record it appended in this step (the sampled
\* draws of one method differ in packet_count).
SameDraws(draws) ==
    \A j \in 1..Min(Len(draws), Len(traffic_data') - Len(traffic_data)) :
        draws[j].packet_count = traffic_data'[Len(traffic_data) + j].packet_count

TwinNormalTraffic ==
    \E duration \in TwinDurations :
        /\ TwinUndetected
        /\ generate_normal_traffic(duration)
        /\ LET endpoints == EndpointsOf(run.nodes)
               ne == Len(endpoints)
               n == duration * ne
           IN  \E draws \in DrawSeqs(n, GenDraws[1], GenDraws[2]) :
                  /\ SameDraws(draws)
                  /\ run' = [run EXCEPT !.traffic_data = @ \o
                                [j \in 1..n |->
                                    NormalTraffic(ClockRead(j - 1),
                                                  endpoints[((j - 1) % ne) + 1], draws[j])]]

TwinDDoSAttack ==
    \E c \in TwinDDoSCalls :
        /\ TwinUndetected
        /\ simulate_ddos_attack(c[1], c[2])
        /\ \E draws \in DrawSeqs(c[2], DDoSDraws[1], DDoSDraws[2]) :
              /\ SameDraws(draws)
              /\ run' = [run EXCEPT !.traffic_data = @ \o
                            [j \in 1..c[2] |-> DDoSTraffic(ClockRead(j), c[1], draws[j])]]

TwinMitmAttack ==
    \E target_connection \in TwinMitmConnections :
        /\ TwinUndetected
        /\ simulate_mitm_attack(target_connection)
        /\ \E draw \in MitmDraws :
              /\ SameDraws(<<draw>>)
              /\ run' = [run EXCEPT !.traffic_data =
                            Append(@, MaliciousTraffic(ClockRead(0), target_connection[1],
                                                       target_connection[2], draw))]

\* The first simulator is jammed; the second is not, or is jammed elsewhere.
TwinJammingAttack ==
    \E c \in TwinJamCalls :
        /\ TwinUndetected
        /\ simulate_jamming_attack(c[1], c[2])
        /\ \/ UNCHANGED run
           \/ \E other \in TwinJamCalls \ {c} :
                 run' = [run EXCEPT !.nodes = JammedRegistry(@, other[1], other[2])]

\* detector.comprehensive_attack_detection(simulator.traffic_data) of both.
\* The isolation forest is built with random_state=42: on the same list it
\* gives the same answer.
TwinDetection ==
    /\ TwinUndetected
    /\ CanCall
    /\ \E forest \in ForestOutcomes(Len(TrafficRecords(traffic_data))),
          twin_forest \in ForestOutcomes(Len(TrafficRecords(run.traffic_data))) :
          /\ run.traffic_data = traffic_data => twin_forest = forest
          /\ ret' = ComprehensiveCall(traffic_data, forest, ClockRead(0))
          /\ run' = [run EXCEPT !.ret =
                        ComprehensiveCall(run.traffic_data, twin_forest, ClockRead(0))]
    /\ Called("comprehensive_attack_detection", [none |-> TRUE], FALSE, 1)
    /\ UNCHANGED <<nodes, traffic_data, security_events, producer>>

NextTwin ==
    \/ TwinNormalTraffic
    \/ TwinDDoSAttack
    \/ TwinMitmAttack
    \/ TwinJammingAttack
    \/ TwinDetection

SpecTwin == InitTwin /\ [][NextTwin]_vars

-----------------------------------------------------------------------------
(* What the properties below speak of *)

\* The step is a call of `op`.
CallOf(op) == hist'.n = hist.n + 1 /\ hist'.op = op

\* The records and the events the step appended.
NewTraffic == SubSeq(traffic_data', Len(traffic_data) + 1, Len(traffic_data'))
NewEvents == SubSeq(security_events', Len(security_events) + 1, Len(security_events'))

EndpointIds == {id \in DOMAIN nodes : nodes[id].node_type = "User Equipment"}

Injectors == {"simulate_ddos_attack", "simulate_jamming_attack", "simulate_mitm_attack"}

\* The nodes at Euclidean distance <= radius of target_area (in halves).
NodesWithin(target_area, radius) ==
    {id \in DOMAIN nodes :
        LET dx == nodes[id].location[1] - target_area[1]
            dy == nodes[id].location[2] - target_area[2]
        IN  dx * dx + dy * dy <= radius * radius}

DegradedNodes == {id \in DOMAIN nodes : nodes[id].status = "degraded"}

-----------------------------------------------------------------------------
\* C1: every record of traffic_data carries the attack flag of its producer:
\* a record appended by generate_normal_traffic has is_attack = False and no
\* attack_type, a record appended by simulate_ddos_attack or
\* simulate_mitm_attack has is_attack = True.
C1_FlagMatchesProducer ==
    /\ Len(producer) = Len(traffic_data)
    /\ \A i \in 1..Len(traffic_data) :
          /\ producer[i] = "generate_normal_traffic" =>
                traffic_data[i].is_attack = FALSE /\ "attack_type" \notin DOMAIN traffic_data[i]
          /\ producer[i] \in {"simulate_ddos_attack", "simulate_mitm_attack"} =>
                traffic_data[i].is_attack = TRUE

C1_Witness ==
    /\ \E i \in 1..Len(producer) : producer[i] = "generate_normal_traffic"
    /\ \E i \in 1..Len(producer) : producer[i] = "simulate_mitm_attack"

\* C2: generate_normal_traffic(duration) appends duration x (number of
\* endpoints) records, in every simulated second one record of each endpoint
\* and none of another node; each has a registered destination, packet_count
\* in [10, 100] and is_attack = False.
C2_NormalTraffic ==
    [][CallOf("generate_normal_traffic") =>
        LET duration == hist'.arg.duration
            ne == Cardinality(EndpointIds)
        IN  /\ IsPrefix(traffic_data, traffic_data')
            /\ Len(NewTraffic) = duration * ne
            /\ \A second \in 0..(duration - 1) :
                  \A id \in EndpointIds :
                     Cardinality({j \in (second * ne + 1)..(second * ne + ne) :
                                     NewTraffic[j].source = id}) = 1
            /\ \A j \in 1..Len(NewTraffic) :
                  /\ NewTraffic[j].source \in EndpointIds
                  /\ NewTraffic[j].destination \in DOMAIN nodes
                  /\ NewTraffic[j].packet_count \in 10..100
                  /\ NewTraffic[j].is_attack = FALSE]_vars

C2_Witness ==
    /\ hist.op = "generate_normal_traffic"
    /\ hist.arg.duration = 1
    /\ \E i \in 1..Len(traffic_data) :
          /\ producer[i] = "generate_normal_traffic"
          /\ traffic_data[i].destination = traffic_data[i].source
    /\ \E i \in 1..Len(traffic_data) :
          /\ producer[i] = "generate_normal_traffic"
          /\ traffic_data[i].destination # traffic_data[i].source

\* C3: simulate_ddos_attack(target, duration) appends duration records, each
\* with packet_count in [1000, 5000], is_attack = True, attack_type "DDoS",
\* destination = target, latency in [100, 500], signal_strength in [0.3, 0.6].
C3_DDoSTraffic ==
    [][CallOf("simulate_ddos_attack") =>
        /\ IsPrefix(traffic_data, traffic_data')
        /\ Len(NewTraffic) = hist'.arg.duration
        /\ \A j \in 1..Len(NewTraffic) :
              /\ NewTraffic[j].packet_count \in 1000..5000
              /\ NewTraffic[j].is_attack = TRUE
              /\ "attack_type" \in DOMAIN NewTraffic[j]
              /\ NewTraffic[j].attack_type = "DDoS"
              /\ NewTraffic[j].destination = hist'.arg.target_node
              /\ NewTraffic[j].latency \in 100..500
              /\ NewTraffic[j].signal_strength \in 30..60]_vars

C3_Witness ==
    /\ hist.op = "simulate_ddos_attack"
    /\ hist.arg.duration = 2
    /\ Len(traffic_data) >= 2
    /\ traffic_data[Len(traffic_data)].packet_count = 5000
    /\ traffic_data[Len(traffic_data) - 1].packet_count = 1000

\* C4: a call of simulate_ddos_attack appends one SecurityEvent: a flood of
\* severity HIGH (3), pending, whose packet total is the sum of packet_count
\* over the records that call appended (0 when it appended none).
C4_DDoSEvent ==
    [][CallOf("simulate_ddos_attack") =>
        /\ IsPrefix(security_events, security_events')
        /\ Len(NewEvents) = 1
        /\ NewEvents[1].threat_type = "DDoS Attack"
        /\ NewEvents[1].severity = 3
        /\ NewEvents[1].mitigation_status = "pending"
        /\ NewEvents[1].description.packets =
              SumSeq([j \in 1..Len(NewTraffic) |-> NewTraffic[j].packet_count])
        /\ (hist'.arg.duration = 0 => NewEvents[1].description.packets = 0)]_vars

C4_Witness ==
    /\ hist.op = "simulate_ddos_attack"
    /\ hist.arg.duration = 2
    /\ security_events[Len(security_events)].description.packets = 6000

C4_WitnessEmpty ==
    /\ hist.op = "simulate_ddos_attack"
    /\ hist.arg.duration = 0
    /\ security_events[Len(security_events)].description.packets = 0

\* C5: simulate_jamming_attack(target_area, radius) sets status = degraded on
\* the nodes at Euclidean distance <= radius of target_area, leaves every
\* other node as it was, appends one SecurityEvent of severity MEDIUM (2) that
\* counts the nodes within the radius, and appends no traffic record.
C5_Jamming ==
    [][CallOf("simulate_jamming_attack") =>
        LET within == NodesWithin(hist'.arg.target_area, hist'.arg.radius)
        IN  /\ DOMAIN nodes' = DOMAIN nodes
            /\ \A id \in within : nodes'[id] = [nodes[id] EXCEPT !.status = "degraded"]
            /\ \A id \in DOMAIN nodes \ within : nodes'[id] = nodes[id]
            /\ IsPrefix(security_events, security_events')
            /\ Len(NewEvents) = 1
            /\ NewEvents[1].threat_type = "Jamming Attack"
            /\ NewEvents[1].severity = 2
            /\ NewEvents[1].description.affected = Cardinality(within)
            /\ traffic_data' = traffic_data]_vars

\* The call ((1, 1), 1.0) was made: four nodes lie on the boundary.
C5_Witness ==
    /\ hist.op = "simulate_jamming_attack"
    /\ hist.arg = [target_area |-> <<2, 2>>, radius |-> 2]
    /\ DegradedNodes = {"gNB-001", "gNB-002", "gNB-003", "SMF-001", "UE-002"}
    /\ security_events[Len(security_events)].description.affected = 5

\* The call run_default_attacks makes: simulate_jamming_attack((1, 1), radius=0.5).
DefaultJamming ==
    /\ CallOf("simulate_jamming_attack")
    /\ hist'.arg = [target_area |-> <<2, 2>>, radius |-> 1]

\* The step degrades node `only` and leaves every other node as it was.
DegradesOnly(only) ==
    /\ nodes'[only].status = "degraded"
    /\ \A id \in DOMAIN nodes \ {only} : nodes'[id] = nodes[id]

\* C6, as amended: on the registry initialize_network builds, the one node at
\* distance <= 0.5 of (1, 1) is gNB-002 (it lies at (1, 1); gNB-001 lies at
\* (1, 0), at distance 1), and the jamming injector over (1, 1) with radius
\* 0.5 degrades gNB-002 and leaves every other node as it was.
C6_DefaultJammingHitsGNB002 ==
    [][DefaultJamming =>
        /\ NodesWithin(<<2, 2>>, 1) = {"gNB-002"}
        /\ DegradesOnly("gNB-002")
        /\ nodes'["gNB-001"] = nodes["gNB-001"]]_vars

C6_Witness ==
    /\ hist.op = "simulate_jamming_attack"
    /\ hist.arg = [target_area |-> <<2, 2>>, radius |-> 1]
    /\ DegradedNodes = {"gNB-002"}
    /\ nodes["gNB-001"].status = "active"

\* C6, as claimed: the jamming injector over (1, 1) with radius 0.5 degrades
\* gNB-001 and leaves every other node as it was.
C6_AsClaimed == [][DefaultJamming => DegradesOnly("gNB-001")]_vars

\* C7: simulate_mitm_attack((source, destination)) appends one record, with
\* that source and destination, is_attack = True, attack_type "MITM" and
\* anomaly_score in [0.7, 0.9], and one SecurityEvent of severity CRITICAL (4);
\* it changes no node.
C7_Mitm ==
    [][CallOf("simulate_mitm_attack") =>
        /\ IsPrefix(traffic_data, traffic_data')
        /\ Len(NewTraffic) = 1
        /\ NewTraffic[1].source = hist'.arg.target_connection[1]
        /\ NewTraffic[1].destination = hist'.arg.target_connection[2]
        /\ NewTraffic[1].is_attack = TRUE
        /\ NewTraffic[1].attack_type = "MITM"
        /\ NewTraffic[1].anomaly_score \in 70..90
        /\ IsPrefix(security_events, security_events')
        /\ Len(NewEvents) = 1
        /\ NewEvents[1].threat_type = "Man-in-the-Middle"
        /\ NewEvents[1].severity = 4
        /\ nodes' = nodes]_vars

C7_Witness ==
    /\ hist.op = "simulate_mitm_attack"
    /\ hist.arg.target_connection = <<"UE-001", "gNB-001">>
    /\ traffic_data[Len(traffic_data)].anomaly_score = 90
    /\ DegradedNodes # {}

\* C8: traffic_data and security_events only grow at their ends: every step
\* keeps the records and the events it found as a prefix of the new lists; and
\* security_events holds one event per call of an attack injector made so far.
C8_AppendOnly ==
    /\ [](Len(security_events) = hist.inj)
    /\ [][/\ IsPrefix(traffic_data, traffic_data')
          /\ IsPrefix(security_events, security_events')]_vars

\* Two different injectors, and then a call that appends nothing, were made.
C8_Witness ==
    /\ hist.op \in {"detect_anomalies", "generate_security_report"}
    /\ hist.n = 3
    /\ Len(security_events) = 2
    /\ security_events[1].threat_type # security_events[2].threat_type
    /\ Len(traffic_data) >= 1

\* The step repeats the attack injector call made just before it.
RepeatedInjectorCall ==
    /\ hist.op \in Injectors
    /\ CallOf(hist.op)
    /\ hist'.arg = hist.arg

\* The records the repeated call of an injector appends.
RepeatAppends ==
    IF hist.op = "simulate_ddos_attack" THEN hist.arg.duration
    ELSE IF hist.op = "simulate_mitm_attack" THEN 1
    ELSE 0

\* C9, as amended: no injector is idempotent on the whole state.  A second
\* call with the same arguments leaves the node statuses as they were after
\* the first, but appends again: one more SecurityEvent, and as many traffic
\* records as the first call (duration for the flood, one for the
\* interception, none for jamming), after the ones already there.
C9_RepeatAppendsAgain ==
    [][RepeatedInjectorCall =>
        /\ nodes' = nodes
        /\ IsPrefix(security_events, security_events')
        /\ Len(security_events') = Len(security_events) + 1
        /\ IsPrefix(traffic_data, traffic_data')
        /\ Len(traffic_data') = Len(traffic_data) + RepeatAppends]_vars

\* The jamming call ((1, 1), 1.0) was made twice.
C9_Witness ==
    /\ hist.op = "simulate_jamming_attack"
    /\ hist.arg = [target_area |-> <<2, 2>>, radius |-> 2]
    /\ hist.n = 2
    /\ Len(security_events) = 2
    /\ security_events[1].threat_type = "Jamming Attack"
    /\ security_events[1].description = security_events[2].description
    /\ Cardinality(DegradedNodes) = 5

\* C9, as claimed: a second call of an injector with the same arguments
\* leaves node statuses, traffic_data and security_events as after the first.
C9_AsClaimed ==
    [][RepeatedInjectorCall =>
        /\ nodes' = nodes
        /\ traffic_data' = traffic_data
        /\ security_events' = security_events]_vars

-----------------------------------------------------------------------------
(* What the properties of the flood detector speak of *)

\* The wall-clock minutes the input has records in: minutes since the epoch.
InputMinutes == {det_input[i].timestamp \div 60 : i \in 1..Len(det_input)}

\* The packets the input has in that minute.
MinuteTotal(m) ==
    SumSeq([i \in 1..Len(det_input) |->
               IF det_input[i].timestamp \div 60 = m THEN det_input[i].packet_count ELSE 0])

\* The findings the detector returned for that minute.
FindingsOf(m) == {k \in 1..Len(ret.value) : ret.value[k].timestamp = m * 60}

\* C10: detect_ddos_attack returns one finding for every wall-clock minute of
\* the input whose packet_count sum is strictly greater than 1000, none for
\* another minute (a sum of exactly 1000 is not flagged); the confidence of a
\* finding is min(total / 1000, 1.0), which is 1.0 for a total of 1500.
C10_DDoSFindings ==
    ret.kind = "ddos_attacks" =>
        /\ \A m \in InputMinutes :
              IF MinuteTotal(m) > 1000
              THEN /\ Cardinality(FindingsOf(m)) = 1
                   /\ \A k \in FindingsOf(m) :
                         /\ ret.value[k].metrics.total_packets = MinuteTotal(m)
                         /\ ret.value[k].confidence =
                               (IF MinuteTotal(m) < 1000 THEN MinuteTotal(m) ELSE 1000)
                         /\ (MinuteTotal(m) = 1500 => ret.value[k].confidence = 1000)
              ELSE FindingsOf(m) = {}
        /\ \A k \in 1..Len(ret.value) :
              \E m \in InputMinutes : k \in FindingsOf(m)

\* One minute totals exactly 1000 and has no finding, two records of another
\* total 1500 and have one.
C10_Witness ==
    /\ ret.kind = "ddos_attacks"
    /\ \E m \in InputMinutes : MinuteTotal(m) = 1000 /\ FindingsOf(m) = {}
    /\ \E m \in InputMinutes :
          /\ MinuteTotal(m) = 1500
          /\ Cardinality({i \in 1..Len(det_input) : det_input[i].timestamp \div 60 = m}) = 2
          /\ \E k \in FindingsOf(m) : ret.value[k].confidence = 1000

-----------------------------------------------------------------------------
(* simulation/run_simulation.py *)

\* simulation/attack_scenarios.json is not there, is not what json.load and
\* scenarios['attack_scenarios'] accept, or holds a list of scenarios.  The
\* file belongs to the deployment: its content is an input.  parameters is the
\* dict of the scenario; <<>> is the dict without keys.
SampleScenarios ==
    << [scenario_id |-> "DDOS-001", name |-> "flood", attack_type |-> "DDoS",
        parameters |-> [target_nodes |-> <<"gNB-001", "gNB-002">>, duration |-> 1]],
       [scenario_id |-> "JAM-001", name |-> "jamming", attack_type |-> "Jamming",
        parameters |-> <<>>],
       [scenario_id |-> "MITM-001", name |-> "interception", attack_type |-> "MITM",
        parameters |-> [target_connections |-> << <<"UE-002", "gNB-002">> >>]] >>

AbsentFile == [state |-> "absent"]
MalformedFile == [state |-> "malformed"]
ValidFile == [state |-> "valid", attack_scenarios |-> SampleScenarios]

\* The arguments of run_simulation and the file it finds.  scenario_id "" is
\* None, or any other value that is not true; duration // 2 is 0 or 1.
RunArguments ==
    { [scenario_id |-> "", duration |-> 0, file |-> AbsentFile],
      [scenario_id |-> "", duration |-> 2, file |-> ValidFile],
      [scenario_id |-> "", duration |-> 0, file |-> MalformedFile],
      [scenario_id |-> "DDOS-001", duration |-> 2, file |-> AbsentFile],
      [scenario_id |-> "DDOS-001", duration |-> 0, file |-> ValidFile],
      [scenario_id |-> "JAM-001", duration |-> 0, file |-> ValidFile],
      [scenario_id |-> "MITM-001", duration |-> 3, file |-> ValidFile],
      [scenario_id |-> "NOPE-404", duration |-> 0, file |-> ValidFile] }

load_attack_scenarios_uncaught(file) ==
    IF file.state = "valid" THEN [kind |-> "returned", value |-> file.attack_scenarios]
    ELSE IF file.state = "absent" THEN Raised("FileNotFoundError")
    ELSE Raised("JSONDecodeError")

\* load_attack_scenarios: FileNotFoundError is caught and answered with [],
\* nothing else is.
load_attack_scenarios(file) ==
    IF file.state = "valid" THEN [kind |-> "returned", value |-> file.attack_scenarios]
    ELSE IF file.state = "absent" THEN [kind |-> "returned", value |-> <<>>]
    ELSE Raised("JSONDecodeError")

\* parameters.get(key, default)
ParameterGet(parameters, key, default) ==
    IF key \in DOMAIN parameters THEN parameters[key] ELSE default

\* The simulator calls of run_default_attacks, in order.
run_default_attacks ==
    << [op |-> "simulate_ddos_attack", target_node |-> "gNB-001", duration |-> 30],
       [op |-> "simulate_jamming_attack", target_area |-> <<2, 2>>, radius |-> 1],
       [op |-> "simulate_mitm_attack", target_connection |-> <<"UE-001", "gNB-001">>] >>

\* The simulator calls of run_attack_scenario(simulator, scenario), in order.
run_attack_scenario(scenario) ==
    LET attack_type == scenario.attack_type
        parameters == scenario.parameters
    IN  IF attack_type = "DDoS"
        THEN LET target_nodes == ParameterGet(parameters, "target_nodes", <<"gNB-001">>)
             IN  [i \in 1..Len(target_nodes) |->
                     [op |-> "simulate_ddos_attack", target_node |-> target_nodes[i],
                      duration |-> ParameterGet(parameters, "duration", 60)]]
        ELSE IF attack_type = "Jamming"
        THEN << [op |-> "simulate_jamming_attack",
                 target_area |-> ParameterGet(parameters, "jamming_area", <<2, 2>>),
                 radius |-> ParameterGet(parameters, "radius", 1)] >>
        ELSE IF attack_type = "MITM"
        THEN LET target_connections ==
                     ParameterGet(parameters, "target_connections",
                                  << <<"UE-001", "gNB-001">> >>)
             IN  [i \in 1..Len(target_connections) |->
                     [op |-> "simulate_mitm_attack",
                      target_connection |-> target_connections[i]]]
        ELSE <<>>

\* run_simulation has constructed the simulator and the detector and has
\* called initialize_network.
InitRun ==
    /\ nodes = initialize_network
    /\ traffic_data = <<>>
    /\ security_events = <<>>
    /\ now = 0
    /\ clock_step = 20
    /\ ret = None
    /\ producer = <<>>
    /\ hist = [op |-> "init", arg |-> [none |-> TRUE], n |-> 0, inj |-> 0,
               budget |-> MaxRunCalls, room |-> MaxRunTraffic]
    /\ det_input = <<>>
    /\ \E arguments \in RunArguments :
          run = [pc |-> "generate_normal_traffic", scenario_id |-> arguments.scenario_id,
                 duration |-> arguments.duration, file |-> arguments.file,
                 branch |-> "none", todo |-> <<>>, trace |-> <<>>]

\* The call just made, added to the calls of the run.
Traced == Append(run.trace, [op |-> hist'.op, arg |-> hist'.arg])

\* simulator.generate_normal_traffic(duration=duration//2)
RunNormalTraffic ==
    /\ run.pc = "generate_normal_traffic"
    /\ generate_normal_traffic(run.duration \div 2)
    /\ run' = [run EXCEPT !.pc = "load_attack_scenarios", !.trace = Traced]

\* scenarios = load_attack_scenarios(), and the choice of what to run.
RunLoadScenarios ==
    /\ run.pc = "load_attack_scenarios"
    /\ LET scenarios == load_attack_scenarios(run.file)
           found == SelectSeq(scenarios.value,
                              LAMBDA sc : sc.scenario_id = run.scenario_id)
       IN  run' = IF scenarios.kind = "raised"
                  THEN [run EXCEPT !.pc = "failed"]
                  ELSE IF run.scenario_id # "" /\ found # <<>>
                  THEN [run EXCEPT !.pc = "attacks", !.branch = "run_attack_scenario",
                                   !.todo = run_attack_scenario(found[1])]
                  ELSE [run EXCEPT !.pc = "attacks", !.branch = "run_default_attacks",
                                   !.todo = run_default_attacks]
    /\ UNCHANGED <<nodes, traffic_data, security_events, now, clock_step, ret, producer,
                   hist, det_input>>

RunDDoSAttack ==
    /\ run.pc = "attacks" /\ run.todo # <<>>
    /\ Head(run.todo).op = "simulate_ddos_attack"
    /\ simulate_ddos_attack(Head(run.todo).target_node, Head(run.todo).duration)
    /\ run' = [run EXCEPT !.todo = Tail(run.todo), !.trace = Traced]

RunJammingAttack ==
    /\ run.pc = "attacks" /\ run.todo # <<>>
    /\ Head(run.todo).op = "simulate_jamming_attack"
    /\ simulate_jamming_attack(Head(run.todo).target_area, Head(run.todo).radius)
    /\ run' = [run EXCEPT !.todo = Tail(run.todo), !.trace = Traced]

RunMitmAttack ==
    /\ run.pc = "attacks" /\ run.todo # <<>>
    /\ Head(run.todo).op = "simulate_mitm_attack"
    /\ simulate_mitm_attack(Head(run.todo).target_connection)
    /\ run' = [run EXCEPT !.todo = Tail(run.todo), !.trace = Traced]

\* detector.comprehensive_attack_detection(simulator.traffic_data)
RunDetection ==
    /\ run.pc = "attacks" /\ run.todo = <<>>
    /\ CanCall
    /\ \E forest \in ForestOutcomes(Len(TrafficRecords(traffic_data))) :
          ret' = ComprehensiveCall(traffic_data, forest, ClockRead(0))
    /\ Called("comprehensive_attack_detection", [none |-> TRUE], FALSE, 1)
    /\ run' = [run EXCEPT !.pc = IF ret'.kind = "raised" THEN "failed"
                                 ELSE "generate_security_report",
                          !.trace = Traced]
    /\ UNCHANGED <<nodes, traffic_data, security_events, producer>>

\* simulator.generate_security_report(), then the results are saved and the
\* summary is printed.
RunReport ==
    /\ run.pc = "generate_security_report"
    /\ generate_security_report
    /\ run' = [run EXCEPT !.pc = "done", !.trace = Traced]

NextRun ==
    \/ RunNormalTraffic
    \/ RunLoadScenarios
    \/ RunDDoSAttack
    \/ RunJammingAttack
    \/ RunMitmAttack
    \/ RunDetection
    \/ RunReport

SpecRun == InitRun /\ [][NextRun]_vars

-----------------------------------------------------------------------------
\* The sources of the input, the positions of a source's records, the sum of
\* its packet_count values and the seconds from its first record of the list
\* to its last.
InputSources == {det_input[i].source : i \in 1..Len(det_input)}

SightingsOf(src) == {i \in 1..Len(det_input) : det_input[i].source = src}

SourcePackets(src) ==
    SumSeq([i \in 1..Len(det_input) |->
               IF det_input[i].source = src THEN det_input[i].packet_count ELSE 0])

SourceSpan(src) ==
    LET first == CHOOSE i \in SightingsOf(src) : \A j \in SightingsOf(src) : i <= j
        last == CHOOSE i \in SightingsOf(src) : \A j \in SightingsOf(src) : j <= i
    IN  det_input[last].timestamp - det_input[first].timestamp

SpoofFindingsOf(src) == {k \in 1..Len(ret.value) : ret.value[k].metrics.source = src}

\* C11: detect_spoofing_attack sums packet_count per distinct source over the
\* whole input and divides by the seconds between the source's first and last
\* sighting in the list; it returns one finding for every source whose rate is
\* strictly greater than 50 packets per second (a source seen within a span of
\* zero seconds, or whose last sighting is not later than its first, has no such
\* rate) and none for another source; the confidence is min(rate / 100, 1.0),
\* which is 1.0 for 200 packets across 2 seconds.
C11_SpoofingFindings ==
    ret.kind = "spoofing_attacks" =>
        /\ \A src \in InputSources :
              LET total == SourcePackets(src)
                  span == SourceSpan(src)
              IN  IF span > 0 /\ total > 50 * span
                  THEN /\ Cardinality(SpoofFindingsOf(src)) = 1
                       /\ \A k \in SpoofFindingsOf(src) :
                             LET c == ret.value[k].confidence
                             IN  /\ c.den > 0
                                 /\ c.num * (100 * span) =
                                       c.den * (IF total < 100 * span THEN total
                                                ELSE 100 * span)
                                 /\ (total = 200 /\ span = 2 => c.num = c.den)
                  ELSE SpoofFindingsOf(src) = {}
        /\ \A k \in 1..Len(ret.value) : ret.value[k].metrics.source \in InputSources

\* A single source sends 200 packets across 2 seconds: one finding, with
\* confidence 1.0.
C11_Witness ==
    /\ ret.kind = "spoofing_attacks"
    /\ Len(det_input) = 2
    /\ Cardinality(InputSources) = 1
    /\ \A src \in InputSources : SourcePackets(src) = 200 /\ SourceSpan(src) = 2
    /\ Len(ret.value) = 1
    /\ ret.value[1].confidence.num = ret.value[1].confidence.den

-----------------------------------------------------------------------------
\* The positions of the samples of minute m (the records of that minute that
\* carry a signal_strength), the minutes that have samples, and the sum of the
\* samples of a minute and of their squares.
SamplesOf(m) ==
    {i \in 1..Len(det_input) :
        "signal_strength" \in DOMAIN det_input[i] /\ det_input[i].timestamp \div 60 = m}

SampledMinutes == {m \in {det_input[i].timestamp \div 60 : i \in 1..Len(det_input)} :
                      SamplesOf(m) # {}}

SampleSum(m) ==
    SumSeq([i \in 1..Len(det_input) |->
               IF i \in SamplesOf(m) THEN det_input[i].signal_strength ELSE 0])

SampleSquares(m) ==
    SumSeq([i \in 1..Len(det_input) |->
               IF i \in SamplesOf(m)
               THEN det_input[i].signal_strength * det_input[i].signal_strength ELSE 0])

JamFindingsOf(m) == {k \in 1..Len(ret.value) : ret.value[k].timestamp = 60 * m}

MeanBelow(m) == SampleSum(m) < 30 * Cardinality(SamplesOf(m))

MinBelow(m) == \E i \in SamplesOf(m) : det_input[i].signal_strength < 20

\* The sample variance, sum((s - mean)^2) / (n - 1), is above 0.1; one sample
\* has no variance.
VarianceAbove(m) ==
    LET n == Cardinality(SamplesOf(m))
    IN  n >= 2 /\ n * SampleSquares(m) - SampleSum(m) * SampleSum(m) > 1000 * n * (n - 1)

\* C12: detect_jamming_attack groups the signal_strength samples by 1-minute
\* window and returns one finding for a window if and only if the mean of its
\* samples is below 0.3, or their minimum is below 0.2, or their (sample)
\* variance is above 0.1; the confidence of the finding is 1 - mean; a record
\* without signal_strength counts for nothing.
C12_JammingFindings ==
    ret.kind = "jamming_attacks" =>
        /\ \A m \in SampledMinutes :
              IF MeanBelow(m) \/ MinBelow(m) \/ VarianceAbove(m)
              THEN /\ Cardinality(JamFindingsOf(m)) = 1
                   /\ \A k \in JamFindingsOf(m) :
                         LET c == ret.value[k].confidence
                             n == Cardinality(SamplesOf(m))
                         IN  /\ c.den > 0
                             /\ c.num * (100 * n) = c.den * (100 * n - SampleSum(m))
              ELSE JamFindingsOf(m) = {}
        /\ \A k \in 1..Len(ret.value) :
              \E m \in SampledMinutes : k \in JamFindingsOf(m)

\* Three records of one minute: one without signal_strength and samples of 0.1
\* and 0.5, whose mean is 0.3 and whose variance is 0.08: the minimum alone
\* makes the finding, with confidence 0.7.
C12_Witness ==
    /\ ret.kind = "jamming_attacks"
    /\ Len(det_input) = 3
    /\ \E m \in SampledMinutes :
          /\ Cardinality(SamplesOf(m)) = 2
          /\ SampleSum(m) = 60
          /\ MinBelow(m) /\ ~MeanBelow(m) /\ ~VarianceAbove(m)
          /\ \E i \in 1..3 : "signal_strength" \notin DOMAIN det_input[i]
                                /\ det_input[i].timestamp \div 60 = m
          /\ \E k \in JamFindingsOf(m) :
                ret.value[k].confidence.num * 10 = ret.value[k].confidence.den * 7
    /\ Len(ret.value) = 1

-----------------------------------------------------------------------------
\* The records of the input that carry all of packet_count, latency and
\* data_volume.
Qualifying ==
    {i \in 1..Len(det_input) :
        /\ "packet_count" \in DOMAIN det_input[i]
        /\ "latency" \in DOMAIN det_input[i]
        /\ "data_volume" \in DOMAIN det_input[i]}

\* C13: comprehensive_attack_detection runs the four detectors on the list it
\* was given and returns their four finding lists with a summary in which
\* total_attacks is the sum of the lengths of the four lists and
\* traffic_records_analyzed the number of records of the list; for the empty
\* list the four lists are empty and total_attacks is 0.
C13_Comprehensive ==
    ret.kind = "comprehensive" =>
        /\ ret.value.ddos_attacks = DDoSCall(det_input).value
        /\ ret.value.jamming_attacks = JammingCall(det_input).value
        /\ ret.value.spoofing_attacks = SpoofingCall(det_input).value
        /\ \A k \in 1..Len(ret.value.mitm_attacks) :
              /\ ret.value.mitm_attacks[k].attack_type = "MITM"
              /\ \E i \in Qualifying :
                    det_input[i].timestamp = ret.value.mitm_attacks[k].timestamp
        /\ ret.value.summary.total_attacks =
              Len(ret.value.ddos_attacks) + Len(ret.value.jamming_attacks)
                 + Len(ret.value.mitm_attacks) + Len(ret.value.spoofing_attacks)
        /\ ret.value.summary.traffic_records_analyzed = Len(det_input)
        /\ det_input = <<>> =>
              /\ ret.value.ddos_attacks = <<>>
              /\ ret.value.jamming_attacks = <<>>
              /\ ret.value.mitm_attacks = <<>>
              /\ ret.value.spoofing_attacks = <<>>
              /\ ret.value.summary.total_attacks = 0

\* Ten records on which each of the four detectors has a finding, the
\* interception detector two: total_attacks is 5.
C13_Witness ==
    /\ ret.kind = "comprehensive"
    /\ Len(det_input) = 10
    /\ Len(ret.value.ddos_attacks) = 1
    /\ Len(ret.value.jamming_attacks) = 1
    /\ Len(ret.value.mitm_attacks) = 2
    /\ Len(ret.value.spoofing_attacks) = 1
    /\ ret.value.summary.total_attacks = 5
    /\ ret.value.summary.traffic_records_analyzed = 10

\* C14: a detection method returns the empty finding list when its input is
\* empty or below its minimum (detect_mitm_attack whenever fewer than 10
\* records carry all of packet_count, latency and data_volume), and no
\* detection method raises, whatever the list of records.
C14_NeverRaises ==
    /\ ret.kind # "raised"
    /\ (ret.kind \in {"ddos_attacks", "jamming_attacks", "mitm_attacks", "spoofing_attacks"}
           /\ det_input = <<>>) => ret.value = <<>>
    /\ (ret.kind = "mitm_attacks" /\ Cardinality(Qualifying) < 10) => ret.value = <<>>

-----------------------------------------------------------------------------
\* A confidence held as a fraction of integers lies in [0, 1].
FractionInUnit(c) == c.den > 0 /\ 0 <= c.num /\ c.num <= c.den

FloodConfidencesInUnit(attacks) ==
    \A k \in 1..Len(attacks) : attacks[k].confidence \in 0..1000

FractionConfidencesInUnit(attacks) ==
    \A k \in 1..Len(attacks) : FractionInUnit(attacks[k].confidence)

ForestConfidencesInUnit(attacks) ==
    \A k \in 1..Len(attacks) : attacks[k].confidence \in 0..100

-----------------------------------------------------------------------------
\* The records of traffic_data flagged as attack traffic.
AttackRecords == {i \in 1..Len(traffic_data) : traffic_data[i].is_attack}

\* C16: in the report of generate_security_report, attack_traffic_percentage
\* is (attack records / total records) x 100, and exactly 0 when traffic_data
\* is empty (nothing is divided by zero); in every reachable state the value
\* lies in [0, 100].
C16_AttackTrafficPercentage ==
    ret.kind = "report" =>
        LET p == ret.value.summary.attack_traffic_percentage
            total == Len(traffic_data)
        IN  /\ p.den > 0
            /\ total = 0 => p.num = 0
            /\ total > 0 => p.num * total = p.den * (Cardinality(AttackRecords) * 100)
            /\ 0 <= p.num /\ p.num <= 100 * p.den

\* A report over normal and attack records: the percentage lies strictly
\* between 0 and 100.
C16_Witness ==
    /\ ret.kind = "report"
    /\ AttackRecords # {}
    /\ Cardinality(AttackRecords) < Len(traffic_data)
    /\ ret.value.summary.attack_traffic_percentage.num > 0
    /\ ret.value.summary.attack_traffic_percentage.num
          < 100 * ret.value.summary.attack_traffic_percentage.den

-----------------------------------------------------------------------------
\* What a node is apart from its status.
Identity(node) ==
    [node_id |-> node.node_id, node_type |-> node.node_type,
     ip_address |-> node.ip_address, location |-> node.location,
     security_level |-> node.security_level]

\* C18: the node registry is changed by the jamming injector only.  After
\* initialize_network the set of node identifiers never changes;
\* generate_normal_traffic, simulate_ddos_attack, simulate_mitm_attack,
\* detect_anomalies and generate_security_report leave every field of every
\* node as it was, the jamming injector every field but the status; the
\* status of a node is "active" or "degraded", nothing else.
C18_RegistryFrame ==
    [][/\ DOMAIN nodes' = DOMAIN nodes
       /\ DOMAIN nodes = NodeIds
       /\ \A id \in DOMAIN nodes :
             /\ nodes[id].status \in {"active", "degraded"}
             /\ nodes'[id].status \in {"active", "degraded"}
             /\ Identity(nodes'[id]) = Identity(nodes[id])
       /\ (\E op \in {"generate_normal_traffic", "simulate_ddos_attack",
                      "simulate_mitm_attack", "detect_anomalies",
                      "generate_security_report"} : CallOf(op))
             => nodes' = nodes
       /\ nodes' # nodes => CallOf("simulate_jamming_attack")]_vars

\* A node was degraded by the jamming injector, and two other operations have
\* run since: it is still degraded.
C18_Witness ==
    /\ DegradedNodes # {}
    /\ hist.n = 3
    /\ hist.inj = 1
    /\ hist.op = "generate_security_report"

-----------------------------------------------------------------------------
\* The sum of the counts of a distribution (a dict key -> count).
RECURSIVE SumOver(_, _)
SumOver(counts, keys) ==
    IF keys = {} THEN 0
    ELSE LET k == CHOOSE key \in keys : TRUE
         IN  counts[k] + SumOver(counts, keys \ {k})

DistributionTotal(counts) == SumOver(counts, DOMAIN counts)

\* C17: in the report, recent_events are the 10 most recent security events
\* (all of them when there are 10 or fewer) in the order they were appended,
\* total_security_events is len(security_events), and the counts of the
\* threat-kind distribution, like those of the severity distribution, sum to
\* total_security_events.
C17_ReportEvents ==
    ret.kind = "report" =>
        LET report == ret.value
            total == Len(security_events)
            recent == report.recent_events
            skipped == total - Len(recent)
        IN  /\ report.summary.total_security_events = total
            /\ Len(recent) = (IF total <= 10 THEN total ELSE 10)
            /\ \A i \in 1..Len(recent) :
                  /\ recent[i].event_id = security_events[skipped + i].event_id
                  /\ recent[i].timestamp.isoformat = security_events[skipped + i].timestamp
                  /\ recent[i].threat_type = security_events[skipped + i].threat_type
                  /\ recent[i].severity = security_events[skipped + i].severity
                  /\ recent[i].description = security_events[skipped + i].description
            /\ DistributionTotal(report.threat_distribution) = total
            /\ DistributionTotal(report.severity_distribution) = total

\* A report over 11 events of two kinds, the oldest of a kind and time the
\* second is not of: 10 are listed, from the second on.
C17_Witness ==
    /\ ret.kind = "report"
    /\ Len(security_events) = 11
    /\ Len(ret.value.recent_events) = 10
    /\ security_events[1].threat_type # security_events[2].threat_type
    /\ security_events[1].timestamp # security_events[2].timestamp
    /\ ret.value.recent_events[1].event_id = security_events[2].event_id
    /\ Cardinality(DOMAIN ret.value.threat_distribution) = 2

-----------------------------------------------------------------------------
\* The injector calls a run has made, in order, and the three calls named as
\* the default: a flood of gNB-001 for 30 s, jamming of radius 0.5 around
\* (1, 1), and interception of UE-001 -> gNB-001.
InjectorCalls == SelectSeq(run.trace, LAMBDA c : c.op \in Injectors)

DefaultTrio ==
    << [op |-> "simulate_ddos_attack",
        arg |-> [target_node |-> "gNB-001", duration |-> 30]],
       [op |-> "simulate_jamming_attack",
        arg |-> [target_area |-> <<2, 2>>, radius |-> 1]],
       [op |-> "simulate_mitm_attack",
        arg |-> [target_connection |-> <<"UE-001", "gNB-001">>]] >>

\* No scenario of the file has the identifier the run was given.
NoScenarioMatches ==
    \/ run.file.state # "valid"
    \/ \A i \in 1..Len(run.file.attack_scenarios) :
          run.file.attack_scenarios[i].scenario_id # run.scenario_id

\* C19: in run_simulation the absence of the scenario file is not fatal: the
\* run goes on and makes exactly the three default attacks, in the order
\* flood (gNB-001, 30 s), jamming ((1, 1), radius 0.5), interception (UE-001 ->
\* gNB-001); it makes the same three when no scenario identifier is given or
\* the identifier matches no configured scenario; detection and then the
\* report always come after the attacks, and a run whose file could be read
\* or is absent never fails.
C19_DefaultRun ==
    run.pc # "none" =>
        /\ run.file.state = "absent" => run.pc # "failed"
        /\ run.pc = "failed" => run.file.state = "malformed"
        /\ (run.pc \notin {"generate_normal_traffic", "load_attack_scenarios", "failed"}
               /\ (run.file.state = "absent" \/ run.scenario_id = "" \/ NoScenarioMatches))
              => /\ IsPrefix(InjectorCalls, DefaultTrio)
                 /\ run.todo = SubSeq(run_default_attacks, Len(InjectorCalls) + 1, 3)
                 /\ run.pc \in {"generate_security_report", "done"}
                        => InjectorCalls = DefaultTrio
        /\ run.pc \in {"generate_security_report", "done"} =>
              LET n == Len(run.trace)
                  detection == IF run.pc = "done" THEN n - 1 ELSE n
              IN  /\ run.todo = <<>>
                  /\ run.trace[1].op = "generate_normal_traffic"
                  /\ run.trace[detection].op = "comprehensive_attack_detection"
                  /\ \A i \in 2..(detection - 1) : run.trace[i].op \in Injectors
                  /\ run.pc = "done" => run.trace[n].op = "generate_security_report"

\* A run that was given a scenario identifier and finds no file: it has made
\* the three default attacks, detection and the report.
C19_Witness ==
    /\ run.pc = "done"
    /\ run.file.state = "absent"
    /\ run.scenario_id = "DDOS-001"
    /\ InjectorCalls = DefaultTrio
    /\ Len(traffic_data) = MaxRunTraffic
    /\ ret.kind = "report"

-----------------------------------------------------------------------------
\* C20: every finding detect_ddos_attack returns has confidence exactly 1.0:
\* a finding is made only for a window whose total is above 1000, where
\* min(total / 1000, 1.0) is 1.0.
C20_DDoSConfidenceIsOne ==
    ret.kind = "ddos_attacks" =>
        \A k \in 1..Len(ret.value) :
            /\ ret.value[k].metrics.total_packets > 1000
            /\ ret.value[k].confidence = 1000

\* The smallest total that makes a finding, 1001 of two records, and its
\* confidence of 1.0.
C20_Witness ==
    /\ ret.kind = "ddos_attacks"
    /\ Len(det_input) = 2
    /\ Len(ret.value) = 1
    /\ ret.value[1].metrics.total_packets = 1001
    /\ ret.value[1].confidence = 1000

-----------------------------------------------------------------------------
\* The status of every node.
Statuses == [id \in DOMAIN nodes |-> nodes[id].status]

\* C24: node degradation is permanent.  No call of generate_normal_traffic,
\* simulate_ddos_attack, simulate_jamming_attack, simulate_mitm_attack,
\* detect_anomalies or generate_security_report returns a degraded node to
\* active: the set of degraded nodes only grows.  A jamming call leaves every
\* node within its radius degraded, and a jamming call whose nodes within the
\* radius are degraded already (a call repeated with the same area and radius,
\* at once or after other calls) leaves all node statuses as they were.
C24_DegradationIsPermanent ==
    [][/\ DegradedNodes \subseteq DegradedNodes'
       /\ CallOf("simulate_jamming_attack") =>
             LET within == NodesWithin(hist'.arg.target_area, hist'.arg.radius)
             IN  /\ within \subseteq DegradedNodes'
                 /\ within \subseteq DegradedNodes => Statuses' = Statuses
       /\ RepeatedInjectorCall /\ hist.op = "simulate_jamming_attack"
             => Statuses' = Statuses]_vars

\* ((1.5, 1), 0.5) was called, then ((1, 1), 0.5) twice: the two nodes the
\* first call degraded, gNB-002 and UE-002, are the degraded nodes still.
C24_Witness ==
    /\ hist.op = "simulate_jamming_attack"
    /\ hist.arg = [target_area |-> <<2, 2>>, radius |-> 1]
    /\ hist.n = 3
    /\ Len(security_events) = 3
    /\ security_events[1].target_node = [area |-> <<3, 2>>]
    /\ security_events[2].target_node = [area |-> <<2, 2>>]
    /\ security_events[2].description = security_events[3].description
    /\ DegradedNodes = NodesWithin(<<3, 2>>, 1) \cup NodesWithin(<<2, 2>>, 1)
    /\ Cardinality(DegradedNodes) = 2

-----------------------------------------------------------------------------
\* The timestamps of the records of a source, in the order of the list.
SightingTimes(src) ==
    LET records == SelectSeq(det_input, LAMBDA t : t.source = src)
    IN  [i \in 1..Len(records) |-> records[i].timestamp]

\* The seconds from the earliest timestamp of a source to its latest.
ExtremeSpan(src) == MaxSeq(SightingTimes(src)) - MinSeq(SightingTimes(src))

\* C23: detect_spoofing_attack returns at most one finding per distinct
\* source, and none for a source whose last record of the list does not have a
\* timestamp strictly later than its first record of the list (a source seen
\* once, all its sightings at one instant, records out of time order),
\* however large its packet total; the first and the last sighting are taken
\* by position in the list, not by least and greatest timestamp: the rate and
\* the timestamp of a finding are those of the span from the first record of
\* the list to the last.
C23_SpoofingByPosition ==
    ret.kind = "spoofing_attacks" =>
        /\ \A src \in InputSources :
              LET times == SightingTimes(src)
              IN  /\ Cardinality(SpoofFindingsOf(src)) <= 1
                  /\ times[Len(times)] <= times[1] => SpoofFindingsOf(src) = {}
                  /\ \A k \in SpoofFindingsOf(src) :
                        /\ ret.value[k].timestamp = times[Len(times)]
                        /\ ret.value[k].metrics.packet_rate =
                              [num |-> SourcePackets(src),
                               den |-> times[Len(times)] - times[1]]
        /\ Len(ret.value) <= Cardinality(InputSources)

\* One source, its three records given latest first: 303 packets, 75 a second
\* from the earliest timestamp to the latest, and no finding.
C23_Witness ==
    /\ ret.kind = "spoofing_attacks"
    /\ Cardinality(InputSources) = 1
    /\ \A src \in InputSources :
          /\ SightingTimes(src) = <<4, 2, 0>>
          /\ SourcePackets(src) = 303
          /\ SourcePackets(src) > SPOOFING_PACKET_RATE * ExtremeSpan(src)
    /\ ret.value = <<>>

-----------------------------------------------------------------------------
\* The wall-clock minutes of the records of traffic_data, the records of one
\* minute and the sum of their packet_count values.
TrafficMinutes == {traffic_data[i].timestamp \div 60 : i \in 1..Len(traffic_data)}

RecordsOfMinute(m) == SelectSeq(traffic_data, LAMBDA t : t.timestamp \div 60 = m)

PacketsOfMinute(m) ==
    LET records == RecordsOfMinute(m)
    IN  SumSeq([i \in 1..Len(records) |-> records[i].packet_count])

\* No attack was injected: every record is the generator's.
OnlyNormalTraffic ==
    /\ hist.inj = 0
    /\ security_events = <<>>
    /\ \A i \in 1..Len(traffic_data) :
          /\ producer[i] = "generate_normal_traffic"
          /\ traffic_data[i].is_attack = FALSE
          /\ traffic_data[i].packet_count >= 10

\* The findings detect_ddos_attack returned for minute m.
FloodFindingsOf(m) == {k \in 1..Len(ret.value) : ret.value[k].timestamp = 60 * m}

\* C22: the flood detector reports a finding when no attack was injected.  On
\* traffic that generate_normal_traffic alone produced (every record has
\* is_attack = False and packet_count >= 10), detect_ddos_attack returns a
\* finding of severity HIGH for every wall-clock minute that holds at least
\* 101 records, as 26 simulated seconds of the 4 endpoints give when they fall
\* into one minute: 101 records carry more than 1000 packets.
C22_FloodFindingWithoutAttack ==
    (hist.op = "detect_ddos_attack" /\ ret.kind = "ddos_attacks" /\ OnlyNormalTraffic) =>
        \A m \in TrafficMinutes :
            Len(RecordsOfMinute(m)) >= 101 =>
                /\ PacketsOfMinute(m) > HIGH_PACKET_RATE
                /\ Cardinality(FloodFindingsOf(m)) = 1
                /\ \A k \in FloodFindingsOf(m) :
                      /\ ret.value[k].attack_type = "DDoS"
                      /\ ret.value[k].severity = "HIGH"
                      /\ ret.value[k].metrics.total_packets = PacketsOfMinute(m)

\* 26 seconds of the 4 endpoints in one minute, every record with the least
\* packet_count of 10: 1040 packets, and one finding.
C22_Witness ==
    /\ hist.op = "detect_ddos_attack"
    /\ ret.kind = "ddos_attacks"
    /\ OnlyNormalTraffic
    /\ Len(traffic_data) = 104
    /\ TrafficMinutes = {0}
    /\ \A i \in 1..Len(traffic_data) : traffic_data[i].packet_count = 10
    /\ Len(ret.value) = 1
    /\ ret.value[1].severity = "HIGH"
    /\ ret.value[1].metrics.total_packets = 1040

-----------------------------------------------------------------------------
\* The two simulators differ in their registries: in the jamming calls made.
JammedDifferently == run.nodes # nodes

\* The criteria of detect_jamming_attack a finding's metrics meet.
MeanCriterion(finding) ==
    finding.metrics.avg_signal_strength.sum
        < SIGNAL_STRENGTH_THRESHOLD * finding.metrics.avg_signal_strength.n

MinCriterion(finding) == finding.metrics.min_signal_strength < MIN_SIGNAL_THRESHOLD

VarianceCriterion(finding) ==
    /\ "nan" \notin DOMAIN finding.metrics.signal_variance
    /\ finding.metrics.signal_variance.num
          > SIGNAL_VARIANCE_THRESHOLD * finding.metrics.signal_variance.den

\* C21: the jamming injector has no influence on detection.  Of two
\* simulators that are given the same calls, draws and clock and differ only
\* in whether, and with which area and radius, simulate_jamming_attack was
\* called, traffic_data is the same list, and comprehensive_attack_detection
\* returns the same findings for both.  The traffic of the generator and of
\* the flood and interception injectors has signal_strength >= 0.3 throughout,
\* so that the mean-below-0.3 and the minimum-below-0.2 criteria of the jamming
\* detector hold for no window: a jamming finding is made by the variance
\* criterion alone.
C21_JammingHasNoInfluence ==
    /\ run.traffic_data = traffic_data
    /\ \A i \in 1..Len(traffic_data) :
          traffic_data[i].signal_strength >= SIGNAL_STRENGTH_THRESHOLD
    /\ hist.op = "comprehensive_attack_detection" =>
          /\ ret.kind = "comprehensive"
          /\ run.ret = ret
          /\ \A k \in 1..Len(ret.value.jamming_attacks) :
                LET finding == ret.value.jamming_attacks[k]
                IN  /\ ~MeanCriterion(finding)
                    /\ ~MinCriterion(finding)
                    /\ VarianceCriterion(finding)

\* The first simulator was jammed before its traffic was generated, UE-002 is
\* degraded in it and active in the second; a flood followed, and the detector
\* has a jamming finding for both.
C21_Witness ==
    /\ hist.op = "comprehensive_attack_detection"
    /\ clock_step = 20
    /\ "UE-002" \in DegradedNodes
    /\ run.nodes["UE-002"].status = "active"
    /\ JammedDifferently
    /\ Len(security_events) = 2
    /\ security_events[1].threat_type = ThreatType.JAMMING
    /\ Len(traffic_data) = 5
    /\ producer[1] = "generate_normal_traffic"
    /\ security_events[1].timestamp <= traffic_data[1].timestamp
    /\ producer[5] = "simulate_ddos_attack"
    /\ ret.value.jamming_attacks # <<>>
    /\ run.ret.value.jamming_attacks = ret.value.jamming_attacks

====
